---- MODULE Spec2Model ----
(***************************************************************************)
(* TLA+ model of the TechnoJays 2013 robot control core.                   *)
(*                                                                         *)
(*   - the orchestration engine (TechnoJays::*Init / *Periodic and the     *)
(*     composite routines), specification Spec;                            *)
(*   - the vision worker and its snapshot hand-off (Targeting), spec       *)
(*     SpecVision.                                                         *)
(*                                                                         *)
(* Speeds are integers in tenths (0.2 is 2); times are integers in tenths  *)
(* of a second divided by TickTime.                                        *)
(***************************************************************************)
EXTENDS Integers, Sequences, FiniteSets, TLC

(***************************************************************************)
(* Enumerations of the source.                                             *)
(***************************************************************************)
kStep1 == 0
kStep2 == 1
kStep3 == 2
kStep4 == 3
kStep5 == 4
kStep6 == 5
kStep7 == 6
kStep8 == 7
kStep9 == 8
kStep10 == 9
kStep11 == 10
kStep12 == 11
kStep13 == 12
kStep14 == 13
kStep15 == 14
kFinished == 15

AutoState == kStep1..kFinished

kDisabled == "Disabled"
kAutonomous == "Autonomous"
kTeleop == "Teleop"

ProgramState == {kDisabled, kAutonomous, kTeleop}

\* Targeting::TargetHeight
kUnknown == 0
kLow == 1
kMedium == 2
kHigh == 3

\* the "unset" parameter value of autoscript_command
Unset == -9999

(***************************************************************************)
(* Bounds of the model.                                                    *)
(***************************************************************************)
\* largest number of controls that are non-zero / pressed in one tick
MaxActive == 2
\* largest number of targets in a captured report
MaxTargets == 2
\* largest vertical center of mass of a particle
MaxY == 2
\* value at which the modelled timers saturate
TimerCap == 4

(***************************************************************************)
(* Parameters (technojays.par, drivetrain.par), scaled to integers.        *)
(***************************************************************************)
auto_shooter_spinup_time_ == 3
auto_shooter_spindown_time_ == 2
RapidFirePistonDelay == 1
auto_climb_backup_speed_ == 2
auto_climb_winch_time_ == 3
climber_time_threshold_ == 1
drive_time_threshold_ == 1
pitch_time_threshold_ == 1
camera_boot_time_ == 2
\* time between two invocations of a periodic handler
TickTime == 1

\* feeder.par / shooter.par: the feeder and the shooter wheel are present
feeder_enabled_ == TRUE

shooter_enabled_ == TRUE

\* targeting.par: the camera is present
camera_enabled_ == TRUE

Actuators == {"drive", "winch", "pitch", "shooter", "piston"}

\* the motors under motor safety: robot_drive_, the climber's controller_,
\* pitch_controller_ and shooter_controller_
Motors == {"drive", "winch", "pitch", "shooter"}

\* the objects each mode entry hands the new state to
Subsystems ==
    {"climber_", "feeder_", "shooter_", "targeting_", "drive_train_", "user_interface_"}

VARIABLES
    robot_state_,
    auto_shoot_state_, aim_state_, auto_find_target_state_,
    auto_rapid_fire_state_, auto_cycle_target_state_,
    auto_feeder_height_state_, auto_climbing_prep_state_, auto_climb_state_,
    auto_climb_pitch_finished_, auto_climb_winch_finished_,
    auto_shoot_timer_,
    targets_report_, current_target_, current_target_vector_location_,
    adjustment_in_progress_,
    previous_linear_speed_,
    autoscript_files_, autoscript_file_name_, autoscript_files_counter_,
    autoscript_commands, command_iterator,
    current_command_, current_command_complete_, current_command_in_progress_,
    timer_, drive_timer_, pitch_timer_,
    subsystem_state_, safety_enabled_,
    tick, controls, disk, maximum_linear_speed_change_,
    find_targets_task_, worker_pc, find_targets_semaphore_, particle_report_,
    reader_pc, report, published,
    op, par, sensor, initial_heading_, call, selection

(***************************************************************************)
(* The control thread's data, threaded through the handlers as one record. *)
(* cmds[a] is the sequence of commands the running handler has sent to     *)
(* actuator a so far, each with the logical source that sent it.           *)
(***************************************************************************)
NoCmds == [a \in Actuators |-> << >>]

Cur ==
    [auto_shoot_state_ |-> auto_shoot_state_,
     aim_state_ |-> aim_state_,
     auto_find_target_state_ |-> auto_find_target_state_,
     auto_rapid_fire_state_ |-> auto_rapid_fire_state_,
     auto_cycle_target_state_ |-> auto_cycle_target_state_,
     auto_feeder_height_state_ |-> auto_feeder_height_state_,
     auto_climbing_prep_state_ |-> auto_climbing_prep_state_,
     auto_climb_state_ |-> auto_climb_state_,
     auto_climb_pitch_finished_ |-> auto_climb_pitch_finished_,
     auto_climb_winch_finished_ |-> auto_climb_winch_finished_,
     auto_shoot_timer_ |-> auto_shoot_timer_,
     targets_report_ |-> targets_report_,
     current_target_ |-> current_target_,
     current_target_vector_location_ |-> current_target_vector_location_,
     adjustment_in_progress_ |-> adjustment_in_progress_,
     previous_linear_speed_ |-> previous_linear_speed_,
     timer_ |-> timer_,
     drive_timer_ |-> drive_timer_,
     pitch_timer_ |-> pitch_timer_,
     subsystem_state_ |-> subsystem_state_,
     safety_enabled_ |-> safety_enabled_,
     command_iterator |-> command_iterator,
     current_command_ |-> current_command_,
     current_command_complete_ |-> current_command_complete_,
     current_command_in_progress_ |-> current_command_in_progress_,
     calls |-> {},
     captured |-> {},
     cmds |-> NoCmds]

\* one command sent to a motor controller or to the feed piston
Cmd(s, actuator, src, val) ==
    [s EXCEPT !.cmds[actuator] = Append(@, [src |-> src, val |-> val])]

\* WPILib Timer: Get() of a timer record
TimerGet(tm) == tm.t

TimerStop(tm) == [tm EXCEPT !.running = FALSE]

TimerReset(tm) == [tm EXCEPT !.t = 0]

TimerStart(tm) == [tm EXCEPT !.running = TRUE]

\* time passing between two handler invocations
TimerAdvance(tm, dt) ==
    IF tm.running
    THEN [tm EXCEPT !.t = IF @ + dt > TimerCap THEN TimerCap ELSE @ + dt]
    ELSE tm

Abs(x) == IF x < 0 THEN -x ELSE x

(***************************************************************************)
(* Subsystem operations.  The sensor readings of a tick decide the outcome *)
(* of a closed-loop motion call: "limit" (travel bound crossed), "reached" *)
(* (inside the completion threshold) or "moving".                          *)
(***************************************************************************)

\* DriveTrain::Drive(float, float, bool) with directional_turn = 0
DriveLinear(s, src, directional_speed) ==
    LET linear0 == directional_speed
        linear == IF Abs(linear0 - s.previous_linear_speed_) > maximum_linear_speed_change_
                  THEN IF linear0 - s.previous_linear_speed_ < 0
                       THEN s.previous_linear_speed_ - maximum_linear_speed_change_
                       ELSE s.previous_linear_speed_ + maximum_linear_speed_change_
                  ELSE linear0
    IN  [Cmd(s, "drive", src, linear) EXCEPT !.previous_linear_speed_ = linear]

\* DriveTrain::TankDrive
TankDrive(s, src, left_stick, right_stick) ==
    Cmd(s, "drive", src, IF left_stick # 0 THEN left_stick ELSE right_stick)

\* DriveTrain::AdjustHeading; the result is <<state, reached>>
AdjustHeading(s, src, outcome) ==
    IF outcome = "reached"
    THEN <<[Cmd(s, "drive", src, 0) EXCEPT !.adjustment_in_progress_ = FALSE], TRUE>>
    ELSE <<[Cmd(s, "drive", src, 1) EXCEPT !.adjustment_in_progress_ = TRUE], FALSE>>

\* Shooter::SetPitch(int, float)
SetPitch(s, src, outcome) ==
    CASE outcome = "limit" -> <<s, TRUE>>
      [] outcome = "reached" -> <<Cmd(s, "pitch", src, 0), TRUE>>
      [] OTHER -> <<Cmd(s, "pitch", src, 1), FALSE>>

\* Shooter::SetPitchAngle
SetPitchAngle(s, src, outcome) ==
    CASE outcome = "limit" -> <<s, TRUE>>
      [] outcome = "reached" -> <<Cmd(s, "pitch", src, 0), TRUE>>
      [] OTHER -> <<Cmd(s, "pitch", src, 1), FALSE>>

\* Shooter::MovePitch
MovePitch(s, src, directional_speed) == Cmd(s, "pitch", src, directional_speed)

\* Shooter::Shoot(int)
Shoot(s, src, power_as_percent) == Cmd(s, "shooter", src, power_as_percent)

\* Feeder::SetPiston
SetPiston(s, src, state) == Cmd(s, "piston", src, IF state THEN 1 ELSE 0)

\* Climber::Move
ClimberMove(s, src, directional_speed) == Cmd(s, "winch", src, directional_speed)

\* the climber's timer: nothing in TechnoJays starts it, so Get() stays 0
ClimberTimerGet == 0

\* Climber::Set(double, Direction, float)
ClimberSetTime(s, src, time, outcome) ==
    IF \/ outcome = "limit"
       \/ time - ClimberTimerGet < climber_time_threshold_
       \/ time - ClimberTimerGet < 0
    THEN <<Cmd(s, "winch", src, 0), TRUE>>
    ELSE <<Cmd(s, "winch", src, 1), FALSE>>

(***************************************************************************)
(* Composite routines of TechnoJays.  Each returns <<state, complete>>.    *)
(***************************************************************************)

\* TechnoJays::AutoShoot
AutoShoot(s, src, power) ==
    LET st == s.auto_shoot_state_
        elapsed_time == TimerGet(s.auto_shoot_timer_)
        s0 == Shoot(s, src, power)
        \* case kStep1, falling through into kStep2
        s1 == IF st = kStep1
              THEN [s0 EXCEPT !.auto_shoot_timer_ = TimerStart(TimerReset(TimerStop(@))),
                              !.auto_shoot_state_ = kStep2]
              ELSE s0
        e1 == IF st = kStep1 THEN 0 ELSE elapsed_time
        in2 == st \in {kStep1, kStep2}
        up2 == auto_shooter_spinup_time_ - e1 <= 0
        s2 == IF in2 /\ up2
              THEN [s1 EXCEPT !.auto_shoot_state_ = kStep3,
                              !.auto_shoot_timer_ = TimerStop(@)]
              ELSE s1
        in3 == (in2 /\ up2) \/ st = kStep3
        s3 == [SetPiston(s2, src, TRUE)
                  EXCEPT !.auto_shoot_timer_ = TimerStart(TimerReset(@)),
                         !.auto_shoot_state_ = kStep4]
        s4 == [Shoot(SetPiston(s0, src, FALSE), src, 0)
                  EXCEPT !.auto_shoot_timer_ = TimerReset(TimerStop(@)),
                         !.auto_shoot_state_ = kFinished]
    IN  CASE ~feeder_enabled_ \/ ~shooter_enabled_ ->
                <<[s EXCEPT !.auto_shoot_state_ = kFinished], TRUE>>
          [] in3 -> <<s3, FALSE>>
          [] in2 -> <<s2, FALSE>>
          [] st = kStep4 ->
                IF auto_shooter_spindown_time_ - elapsed_time <= 0
                THEN <<s4, TRUE>>
                ELSE <<s0, FALSE>>
          [] OTHER ->
                <<[Shoot(s0, src, 0) EXCEPT !.auto_shoot_state_ = kFinished], TRUE>>

\* the steps of AutoRapidFire that extend the piston, wait for the piston
\* and wait for the shooter, one of each per disc
RapidFeedSteps == {kStep3, kStep6, kStep9, kStep12}

RapidPistonSteps == {kStep4, kStep7, kStep10, kStep13}

RapidSpinSteps == {kStep5, kStep8, kStep11, kStep14}

\* AutoRapidFire leaving the spin-down wait at once
AutoRapidFireNoSpinDown(s, src) ==
    LET st == s.auto_rapid_fire_state_
        elapsed_time == TimerGet(s.auto_shoot_timer_)
        s0 == Shoot(s, src, 100)
        \* case kStep2, falling through into kStep3 when the time is up
        up2 == st = kStep2 /\ auto_shooter_spinup_time_ - elapsed_time <= 0
        s2 == IF up2
              THEN [s0 EXCEPT !.auto_rapid_fire_state_ = kStep3,
                              !.auto_shoot_timer_ = TimerStop(@)]
              ELSE s0
        feed == IF up2 THEN kStep3 ELSE st
        sFeed == [SetPiston(s2, src, TRUE)
                     EXCEPT !.auto_shoot_timer_ = TimerStart(TimerReset(@)),
                            !.auto_rapid_fire_state_ = feed + 1]
        \* a piston step, falling through into the spin-down step
        upP == st \in RapidPistonSteps /\ RapidFirePistonDelay - elapsed_time <= 0
        sP == IF upP
              THEN [SetPiston(s0, src, FALSE) EXCEPT !.auto_rapid_fire_state_ = st + 1]
              ELSE s0
        inSpin == upP \/ st \in RapidSpinSteps
        spin == IF upP THEN st + 1 ELSE st
        sSpin == IF TRUE
                 THEN [sP EXCEPT !.auto_shoot_timer_ = TimerStop(@),
                                 !.auto_rapid_fire_state_ = spin + 1]
                 ELSE sP
    IN  CASE ~feeder_enabled_ \/ ~shooter_enabled_ ->
                <<[s EXCEPT !.auto_rapid_fire_state_ = kFinished], TRUE>>
          [] st = kStep1 ->
                <<[s0 EXCEPT !.auto_shoot_timer_ = TimerStart(TimerReset(TimerStop(@))),
                             !.auto_rapid_fire_state_ = kStep2], FALSE>>
          [] feed \in RapidFeedSteps -> <<sFeed, FALSE>>
          [] st = kStep2 -> <<s2, FALSE>>
          [] inSpin -> <<sSpin, FALSE>>
          [] st \in RapidPistonSteps -> <<sP, FALSE>>
          [] st = kStep15 ->
                <<[Shoot(s0, src, 0)
                      EXCEPT !.auto_shoot_timer_ = TimerReset(TimerStop(@)),
                             !.auto_rapid_fire_state_ = kFinished], TRUE>>
          [] OTHER ->
                <<[Shoot(s0, src, 0) EXCEPT !.auto_rapid_fire_state_ = kFinished], TRUE>>

\* TechnoJays::AutoRapidFire
AutoRapidFire(s, src) ==
    LET st == s.auto_rapid_fire_state_
        elapsed_time == TimerGet(s.auto_shoot_timer_)
        s0 == Shoot(s, src, 100)
        \* case kStep2, falling through into kStep3 when the time is up
        up2 == st = kStep2 /\ auto_shooter_spinup_time_ - elapsed_time <= 0
        s2 == IF up2
              THEN [s0 EXCEPT !.auto_rapid_fire_state_ = kStep3,
                              !.auto_shoot_timer_ = TimerStop(@)]
              ELSE s0
        feed == IF up2 THEN kStep3 ELSE st
        sFeed == [SetPiston(s2, src, TRUE)
                     EXCEPT !.auto_shoot_timer_ = TimerStart(TimerReset(@)),
                            !.auto_rapid_fire_state_ = feed + 1]
        \* a piston step, falling through into the spin-down step
        upP == st \in RapidPistonSteps /\ RapidFirePistonDelay - elapsed_time <= 0
        sP == IF upP
              THEN [SetPiston(s0, src, FALSE) EXCEPT !.auto_rapid_fire_state_ = st + 1]
              ELSE s0
        inSpin == upP \/ st \in RapidSpinSteps
        spin == IF upP THEN st + 1 ELSE st
        sSpin == IF auto_shooter_spindown_time_ - elapsed_time <= 0
                 THEN [sP EXCEPT !.auto_shoot_timer_ = TimerStop(@),
                                 !.auto_rapid_fire_state_ = spin + 1]
                 ELSE sP
    IN  CASE ~feeder_enabled_ \/ ~shooter_enabled_ ->
                <<[s EXCEPT !.auto_rapid_fire_state_ = kFinished], TRUE>>
          [] st = kStep1 ->
                <<[s0 EXCEPT !.auto_shoot_timer_ = TimerStart(TimerReset(TimerStop(@))),
                             !.auto_rapid_fire_state_ = kStep2], FALSE>>
          [] feed \in RapidFeedSteps -> <<sFeed, FALSE>>
          [] st = kStep2 -> <<s2, FALSE>>
          [] inSpin -> <<sSpin, FALSE>>
          [] st \in RapidPistonSteps -> <<sP, FALSE>>
          [] st = kStep15 ->
                <<[Shoot(s0, src, 0)
                      EXCEPT !.auto_shoot_timer_ = TimerReset(TimerStop(@)),
                             !.auto_rapid_fire_state_ = kFinished], TRUE>>
          [] OTHER ->
                <<[Shoot(s0, src, 0) EXCEPT !.auto_rapid_fire_state_ = kFinished], TRUE>>

\* AimAtTarget finishing as soon as the heading is adjusted
AimAtTargetHeadingOnly(s, src, env) ==
    LET st == s.aim_state_
        \* case kStep1 falls through into kStep2
        in2 == st \in {kStep1, kStep2}
        h == AdjustHeading([s EXCEPT !.aim_state_ = kStep2], src, env.drive)
        \* case kStep3 falls through into kStep4
        in4 == st \in {kStep3, kStep4}
        p == SetPitchAngle([s EXCEPT !.aim_state_ = kStep4], src, env.pitch)
    IN  CASE s.current_target_ = 0 -> <<[s EXCEPT !.aim_state_ = kFinished], TRUE>>
          [] in2 -> IF h[2] THEN <<[h[1] EXCEPT !.aim_state_ = kFinished], TRUE>>
                          ELSE <<h[1], FALSE>>
          [] in4 -> IF p[2]
                    THEN <<[p[1] EXCEPT !.aim_state_ = kFinished], TRUE>>
                    ELSE <<p[1], FALSE>>
          [] OTHER -> <<[s EXCEPT !.aim_state_ = kFinished], TRUE>>

\* TechnoJays::AimAtTarget
AimAtTarget(s, src, env) ==
    LET st == s.aim_state_
        \* case kStep1 falls through into kStep2
        in2 == st \in {kStep1, kStep2}
        h == AdjustHeading([s EXCEPT !.aim_state_ = kStep2], src, env.drive)
        \* case kStep3 falls through into kStep4
        in4 == st \in {kStep3, kStep4}
        p == SetPitchAngle([s EXCEPT !.aim_state_ = kStep4], src, env.pitch)
    IN  CASE s.current_target_ = 0 -> <<[s EXCEPT !.aim_state_ = kFinished], TRUE>>
          [] in2 -> <<IF h[2] THEN [h[1] EXCEPT !.aim_state_ = kStep3] ELSE h[1], FALSE>>
          [] in4 -> IF p[2]
                    THEN <<[p[1] EXCEPT !.aim_state_ = kFinished], TRUE>>
                    ELSE <<p[1], FALSE>>
          [] OTHER -> <<[s EXCEPT !.aim_state_ = kFinished], TRUE>>

\* Targeting::GetTargets returned false: nothing was copied out
NoReport == -1

\* a capture that keeps the old report and target when nothing is copied out
GetTargetsKeepOld(s, env) ==
    IF ~camera_enabled_ \/ env.snap = NoReport
    THEN [s EXCEPT !.captured = {env.snap}]
    ELSE [s EXCEPT !.targets_report_ = env.snap,
                   !.current_target_ = 0,
                   !.captured = {env.snap}]

\* TechnoJays::GetTargets; env.snap is the result of Targeting::GetTargets:
\* NoReport, else the size of the report copied out; captured keeps that
\* result for the observation of the tick
GetTargets(s, env) ==
    IF ~camera_enabled_
    THEN s
    ELSE [s EXCEPT !.targets_report_ = IF env.snap = NoReport THEN 0 ELSE env.snap,
                   !.current_target_ = 0,
                   !.captured = {env.snap}]

\* TechnoJays::NextTarget
NextTarget(s) ==
    IF s.targets_report_ > 1
    THEN LET loc == IF s.current_target_vector_location_ + 1 >= s.targets_report_
                    THEN 0
                    ELSE s.current_target_vector_location_ + 1
         IN  [s EXCEPT !.current_target_vector_location_ = loc,
                       !.current_target_ = loc + 1]
    ELSE s

\* TechnoJays::SelectTarget; env.sel is the index the heights of the
\* captured targets make the search end on
SelectTarget(s, env) ==
    IF s.targets_report_ = 0
    THEN s
    ELSE LET i == IF env.sel < s.targets_report_ THEN env.sel ELSE s.targets_report_ - 1
         IN  [s EXCEPT !.current_target_vector_location_ = i,
                       !.current_target_ = i + 1]

\* TechnoJays::AutoFindTarget
AutoFindTarget(s, src, env) ==
    LET st == s.auto_find_target_state_
        a == AimAtTarget(s, src, env)
    IN  CASE st = kStep1 ->
                <<[GetTargets(s, env) EXCEPT !.auto_find_target_state_ = kStep2], FALSE>>
          [] st = kStep2 ->
                <<[SelectTarget(s, env) EXCEPT !.aim_state_ = kStep1,
                                               !.auto_find_target_state_ = kStep3], FALSE>>
          [] st = kStep3 ->
                IF a[2]
                THEN <<[a[1] EXCEPT !.aim_state_ = kFinished,
                                    !.auto_find_target_state_ = kFinished], TRUE>>
                ELSE <<a[1], FALSE>>
          [] OTHER -> <<[s EXCEPT !.auto_find_target_state_ = kFinished], TRUE>>

\* the auto_cycle_target_state_ block of TechnoJays::TeleopPeriodic
AutoCycleTarget(s, src, env) ==
    LET st == s.auto_cycle_target_state_
        a == AimAtTarget(s, src, env)
    IN  CASE st = kStep1 ->
                [NextTarget(s) EXCEPT !.auto_cycle_target_state_ = kStep2,
                                      !.aim_state_ = kStep1]
          [] st = kStep2 ->
                IF a[2]
                THEN [a[1] EXCEPT !.auto_cycle_target_state_ = kFinished,
                                  !.aim_state_ = kFinished]
                ELSE a[1]
          [] OTHER -> [s EXCEPT !.auto_cycle_target_state_ = kFinished]

\* TechnoJays::AutoFeederHeight
AutoFeederHeight(s, src, env) ==
    LET p == SetPitchAngle(s, src, env.pitch)
    IN  IF s.auto_feeder_height_state_ = kStep1
        THEN IF p[2]
             THEN <<[p[1] EXCEPT !.auto_feeder_height_state_ = kFinished], TRUE>>
             ELSE <<p[1], FALSE>>
        ELSE <<[s EXCEPT !.auto_feeder_height_state_ = kFinished], TRUE>>

\* TechnoJays::AutoClimbingPrep
AutoClimbingPrep(s, src, env) ==
    LET p == SetPitch(s, src, env.pitch)
    IN  IF s.auto_climbing_prep_state_ = kStep1
        THEN IF p[2]
             THEN <<[p[1] EXCEPT !.auto_climbing_prep_state_ = kFinished], TRUE>>
             ELSE <<p[1], FALSE>>
        ELSE <<[s EXCEPT !.auto_climbing_prep_state_ = kFinished], TRUE>>

\* AutoClimb advancing as soon as either motion is finished
AutoClimbEither(s, src, env) ==
    LET st == s.auto_climb_state_
        s0 == DriveLinear(s, src, auto_climb_backup_speed_)
        \* kStep1: pitch head start
        p1 == SetPitch(s0, src, env.pitch)
        \* kStep2: pitch and winch in parallel
        p2 == IF ~s0.auto_climb_pitch_finished_
              THEN LET p == SetPitch(s0, src, env.pitch)
                   IN  IF p[2] THEN [p[1] EXCEPT !.auto_climb_pitch_finished_ = TRUE]
                               ELSE p[1]
              ELSE s0
        w2 == IF ~p2.auto_climb_winch_finished_
              THEN LET w == ClimberSetTime(p2, src, auto_climb_winch_time_, env.winch)
                   IN  IF w[2] THEN [w[1] EXCEPT !.auto_climb_winch_finished_ = TRUE]
                               ELSE w[1]
              ELSE p2
    IN  CASE st = kStep1 ->
                <<IF p1[2]
                  THEN [p1[1] EXCEPT !.auto_climb_pitch_finished_ = FALSE,
                                     !.auto_climb_winch_finished_ = FALSE,
                                     !.auto_climb_state_ = kStep2]
                  ELSE p1[1], FALSE>>
          [] st = kStep2 ->
                <<IF w2.auto_climb_winch_finished_ \/ w2.auto_climb_pitch_finished_
                  THEN [w2 EXCEPT !.auto_climb_state_ = kStep3]
                  ELSE w2, FALSE>>
          [] OTHER ->
                <<DriveLinear([s0 EXCEPT !.auto_climb_state_ = kFinished], src, 0), TRUE>>

\* TechnoJays::AutoClimb
AutoClimb(s, src, env) ==
    LET st == s.auto_climb_state_
        s0 == DriveLinear(s, src, auto_climb_backup_speed_)
        \* kStep1: pitch head start
        p1 == SetPitch(s0, src, env.pitch)
        \* kStep2: pitch and winch in parallel
        p2 == IF ~s0.auto_climb_pitch_finished_
              THEN LET p == SetPitch(s0, src, env.pitch)
                   IN  IF p[2] THEN [p[1] EXCEPT !.auto_climb_pitch_finished_ = TRUE]
                               ELSE p[1]
              ELSE s0
        w2 == IF ~p2.auto_climb_winch_finished_
              THEN LET w == ClimberSetTime(p2, src, auto_climb_winch_time_, env.winch)
                   IN  IF w[2] THEN [w[1] EXCEPT !.auto_climb_winch_finished_ = TRUE]
                               ELSE w[1]
              ELSE p2
    IN  CASE st = kStep1 ->
                <<IF p1[2]
                  THEN [p1[1] EXCEPT !.auto_climb_pitch_finished_ = FALSE,
                                     !.auto_climb_winch_finished_ = FALSE,
                                     !.auto_climb_state_ = kStep2]
                  ELSE p1[1], FALSE>>
          [] st = kStep2 ->
                <<IF w2.auto_climb_winch_finished_ /\ w2.auto_climb_pitch_finished_
                  THEN [w2 EXCEPT !.auto_climb_state_ = kStep3]
                  ELSE w2, FALSE>>
          [] OTHER ->
                <<DriveLinear([s0 EXCEPT !.auto_climb_state_ = kFinished], src, 0), TRUE>>

(***************************************************************************)
(* The robot's variables and the observation of the last handler run.      *)
(***************************************************************************)
progVars ==
    <<auto_shoot_state_, aim_state_, auto_find_target_state_,
      auto_rapid_fire_state_, auto_cycle_target_state_,
      auto_feeder_height_state_, auto_climbing_prep_state_, auto_climb_state_,
      auto_climb_pitch_finished_, auto_climb_winch_finished_,
      auto_shoot_timer_,
      targets_report_, current_target_, current_target_vector_location_,
      previous_linear_speed_,
      timer_,
      subsystem_state_, safety_enabled_,
      command_iterator,
      current_command_, current_command_complete_, current_command_in_progress_>>

\* the fields of DriveTrain and Shooter that their motion calls write
unitVars == <<adjustment_in_progress_, drive_timer_, pitch_timer_>>

\* one motion operation exercised on its own: the operation, the parameters
\* it reads, the reading of the sensor it uses (encoder_count_, gyro_angle_
\* or distance_traveled_), DriveTrain's initial_heading_, and the last call
motionVars == <<op, par, sensor, initial_heading_, call, selection>>

scriptVars ==
    <<autoscript_files_, autoscript_file_name_, autoscript_files_counter_,
      autoscript_commands>>

robotVars ==
    <<robot_state_, progVars, unitVars, scriptVars, tick, controls, disk,
      maximum_linear_speed_change_, motionVars>>

\* the variables a handler's final record s is written back to
Commit(s) ==
    /\ auto_shoot_state_' = s.auto_shoot_state_
    /\ aim_state_' = s.aim_state_
    /\ auto_find_target_state_' = s.auto_find_target_state_
    /\ auto_rapid_fire_state_' = s.auto_rapid_fire_state_
    /\ auto_cycle_target_state_' = s.auto_cycle_target_state_
    /\ auto_feeder_height_state_' = s.auto_feeder_height_state_
    /\ auto_climbing_prep_state_' = s.auto_climbing_prep_state_
    /\ auto_climb_state_' = s.auto_climb_state_
    /\ auto_climb_pitch_finished_' = s.auto_climb_pitch_finished_
    /\ auto_climb_winch_finished_' = s.auto_climb_winch_finished_
    /\ auto_shoot_timer_' = s.auto_shoot_timer_
    /\ targets_report_' = s.targets_report_
    /\ current_target_' = s.current_target_
    /\ current_target_vector_location_' = s.current_target_vector_location_
    /\ adjustment_in_progress_' = s.adjustment_in_progress_
    /\ previous_linear_speed_' = s.previous_linear_speed_
    /\ timer_' = s.timer_
    /\ drive_timer_' = s.drive_timer_
    /\ pitch_timer_' = s.pitch_timer_
    /\ subsystem_state_' = s.subsystem_state_
    /\ safety_enabled_' = s.safety_enabled_
    /\ command_iterator' = s.command_iterator
    /\ current_command_' = s.current_command_
    /\ current_command_complete_' = s.current_command_complete_
    /\ current_command_in_progress_' = s.current_command_in_progress_

\* the composite routines and the field that holds the cursor of each
Routines ==
    {"AutoShoot", "AutoRapidFire", "AutoFindTarget", "AutoCycleTarget",
     "AutoFeederHeight", "AutoClimbingPrep", "AutoClimb", "AimAtTarget"}

Cursors(s) ==
    [r \in Routines |->
        CASE r = "AutoShoot" -> s.auto_shoot_state_
          [] r = "AutoRapidFire" -> s.auto_rapid_fire_state_
          [] r = "AutoFindTarget" -> s.auto_find_target_state_
          [] r = "AutoCycleTarget" -> s.auto_cycle_target_state_
          [] r = "AutoFeederHeight" -> s.auto_feeder_height_state_
          [] r = "AutoClimbingPrep" -> s.auto_climbing_prep_state_
          [] r = "AutoClimb" -> s.auto_climb_state_
          [] OTHER -> s.aim_state_]

\* time passing before a handler runs
Elapse(s, dt) ==
    [s EXCEPT !.auto_shoot_timer_ = TimerAdvance(@, dt),
              !.timer_ = TimerAdvance(@, dt),
              !.drive_timer_ = TimerAdvance(@, dt),
              !.pitch_timer_ = TimerAdvance(@, dt)]

\* the sensor readings and the vision report a handler can meet
Envs(pitchUsed, driveUsed, winchUsed, snapUsed, selUsed) ==
    [pitch : IF pitchUsed THEN {"limit", "reached", "moving"} ELSE {"reached"},
     drive : IF driveUsed THEN {"reached", "moving"} ELSE {"reached"},
     winch : IF winchUsed THEN {"limit", "free"} ELSE {"free"},
     snap : IF snapUsed THEN {NoReport} \cup (0..MaxTargets) ELSE {NoReport},
     sel : IF selUsed THEN 0..(MaxTargets - 1) ELSE {0}]

(***************************************************************************)
(* AutoScript: the script files on the controller's disk and their reader. *)
(* A file is a sequence of lines, a line the sequence of its tokens.       *)
(***************************************************************************)
ScriptDir ==
    << << <<"shoot", 100>>, <<"end">>, <<"rapidfire">> >>,
       << <<"rapidfire">> >>,
       << <<"findtarget", kHigh>>, <<"drivedistance", 5, 1>>,
          <<"climberposition", 2, 1>>, <<"climbertime", 2, 1, 1>> >>,
       << <<"invalid">>, <<"wait", 1>> >>,
       << <<"wait", 1>>, <<"bogus">>, <<"pitchtime", 2, 1, 1>>, <<"drivetime", 2>> >>,
       << <<"wait", 2>>, <<"drivedistance", 5, 5>>, <<"end">> >> >>

\* struct autoscript_command built from the tokens of one line
autoscript_command(line) ==
    [command |-> line[1],
     param1 |-> IF Len(line) >= 2 THEN line[2] ELSE Unset,
     param2 |-> IF Len(line) >= 3 THEN line[3] ELSE Unset,
     param3 |-> IF Len(line) >= 4 THEN line[4] ELSE Unset]

\* AutoScript::ReadScript of the file named by index name
ReadScript(name) ==
    [i \in 1..Len(ScriptDir[name]) |-> autoscript_command(ScriptDir[name][i])]

\* GetNextCommand starting over from the first command at the end
GetNextCommandWraps(commands, iterator) ==
    IF iterator <= Len(commands)
    THEN <<commands[iterator], iterator + 1>>
    ELSE IF Len(commands) > 0
         THEN <<commands[1], 2>>
         ELSE <<autoscript_command(<<"end">>), iterator>>

\* AutoScript::GetNextCommand: <<command returned, iterator afterwards>>
GetNextCommand(commands, iterator) ==
    IF iterator <= Len(commands)
    THEN <<commands[iterator], iterator + 1>>
    ELSE <<autoscript_command(<<"end">>), iterator>>

\* the command member before any script has been read
NoCommand == autoscript_command(<<"">>)

(***************************************************************************)
(* Timed and closed-loop motions used by the script interpreter.           *)
(***************************************************************************)
\* DriveTrain::Drive(double, float) and DriveTrain::Turn(float, float)
DriveDistance(s, src, outcome) ==
    IF outcome = "reached"
    THEN <<Cmd(s, "drive", src, 0), TRUE>>
    ELSE <<Cmd(s, "drive", src, 1), FALSE>>

\* DriveTrain::Drive(double, Direction, float) and Turn(double, Direction, float)
DriveTime(s, src, time) ==
    LET time_left == time - TimerGet(s.drive_timer_)
    IN  IF time_left < drive_time_threshold_ \/ time_left < 0
        THEN <<[Cmd(s, "drive", src, 0) EXCEPT !.drive_timer_ = TimerStop(@)], TRUE>>
        ELSE <<Cmd(s, "drive", src, 1), FALSE>>

\* Shooter::SetPitch(double, Direction, float)
SetPitchTime(s, src, time, outcome) ==
    LET time_left == time - TimerGet(s.pitch_timer_)
    IN  CASE outcome = "limit" -> <<s, TRUE>>
          [] time_left < pitch_time_threshold_ \/ time_left < 0 ->
                <<[Cmd(s, "pitch", src, 0) EXCEPT !.pitch_timer_ = TimerStop(@)], TRUE>>
          [] OTHER -> <<Cmd(s, "pitch", src, 1), FALSE>>

\* records that operation name was invoked by the running handler
Call(s, name) == [s EXCEPT !.calls = @ \cup {name}]

(***************************************************************************)
(* The script interpreter of TechnoJays::AutonomousPeriodic.               *)
(***************************************************************************)
\* "if this is the first time through this function for this command"
FirstTime(s, init) ==
    IF ~s.current_command_in_progress_
    THEN [init EXCEPT !.current_command_in_progress_ = TRUE]
    ELSE s

\* the catchall treated as a command still running
CatchallStalls(s) == <<s, FALSE>>

\* "Catchall - anything else just mark as complete"
Catchall(s) == <<s, TRUE>>

\* the chain of command-name comparisons; the result is <<state, complete>>
Dispatch(s, env) ==
    LET c == s.current_command_
        src == c.command
        no1 == c.param1 = Unset
        no2 == c.param1 = Unset \/ c.param2 = Unset
        no3 == c.param1 = Unset \/ c.param2 = Unset \/ c.param3 = Unset
        w == FirstTime(s, [s EXCEPT !.timer_ = TimerStart(TimerReset(TimerStop(@)))])
        d == FirstTime(s, [s EXCEPT !.drive_timer_ = TimerStart(TimerReset(TimerStop(@)))])
        p == FirstTime(s, [s EXCEPT !.pitch_timer_ = TimerStart(TimerReset(TimerStop(@)))])
    IN  CASE c.command = "wait" ->
                IF no1 THEN <<s, TRUE>>
                ELSE IF c.param1 - TimerGet(w.timer_) < 0
                     THEN <<[w EXCEPT !.timer_ = TimerStop(@)], TRUE>>
                     ELSE <<w, FALSE>>
          [] c.command = "adjustheading" ->
                IF no2 THEN <<s, TRUE>> ELSE AdjustHeading(Call(s, src), src, env.drive)
          [] c.command \in {"drivedistance", "turnheading"} ->
                IF no2 THEN <<s, TRUE>> ELSE DriveDistance(Call(s, src), src, env.drive)
          [] c.command \in {"drivetime", "turntime"} ->
                IF no3 THEN <<s, TRUE>> ELSE DriveTime(Call(d, src), src, c.param1)
          [] c.command = "pitchposition" ->
                IF no2 THEN <<s, TRUE>> ELSE SetPitch(Call(s, src), src, env.pitch)
          [] c.command = "pitchtime" ->
                IF no3 THEN <<s, TRUE>>
                ELSE SetPitchTime(Call(p, src), src, c.param1, env.pitch)
          [] c.command = "pitchangle" ->
                IF no2 THEN <<s, TRUE>> ELSE SetPitchAngle(Call(s, src), src, env.pitch)
          [] c.command = "shoot" ->
                IF no1 THEN <<s, TRUE>>
                ELSE AutoShoot(Call(FirstTime(s, [s EXCEPT !.auto_shoot_state_ = kStep1]), src),
                               "AutoShoot", c.param1)
          [] c.command = "rapidfire" ->
                AutoRapidFire(Call(FirstTime(s, [s EXCEPT !.auto_rapid_fire_state_ = kStep1]), src),
                              "AutoRapidFire")
          [] c.command = "findtarget" ->
                IF no1 THEN <<s, TRUE>>
                ELSE AutoFindTarget(
                        Call(FirstTime(s, [s EXCEPT !.auto_find_target_state_ = kStep1]), src),
                        "AutoFindTarget", env)
          [] OTHER -> Catchall(s)

\* the "set all the motors to inactive" block
AllMotorsInactive(s, src) ==
    Shoot(MovePitch(ClimberMove(DriveLinear(s, src, 0), src, 0), src, 0), src, 0)

\* every command marked complete whatever its operation returned
SetCompleteAlways(r) == [r[1] EXCEPT !.current_command_complete_ = TRUE]

\* "current_command_complete_ = <result of the command>"
SetComplete(r) == [r[1] EXCEPT !.current_command_complete_ = r[2]]

\* the command n = <<command, iterator>> becomes the current command
LoadCommand(s, n) ==
    [s EXCEPT !.current_command_in_progress_ = FALSE,
              !.current_command_ = n[1],
              !.command_iterator = n[2]]

\* the next command fetched whether or not the current one is complete
FetchNextCommandAlways(s, commands) ==
    LoadCommand(Call(s, "GetNextCommand"),
                GetNextCommand(commands, s.command_iterator))

\* "if (current_command_complete_) { ... GetNextCommand() }"
FetchNextCommand(s, commands) ==
    IF s.current_command_complete_
    THEN LoadCommand(Call(s, "GetNextCommand"),
                     GetNextCommand(commands, s.command_iterator))
    ELSE s

RunScript(s, commands, env) ==
    FetchNextCommand(SetComplete(Dispatch(s, env)), commands)

\* the body of TechnoJays::AutonomousPeriodic; finished is autoscript_finished
AutonomousBody(s, file_name, commands, env) ==
    IF /\ file_name # 0
       /\ s.current_command_.command \notin {"invalid", "end"}
    THEN [state |-> RunScript([s EXCEPT !.current_command_complete_ = FALSE],
                              commands, env),
          finished |-> FALSE]
    ELSE [state |-> AllMotorsInactive([s EXCEPT !.current_command_complete_ = FALSE],
                                      "neutral"),
          finished |-> TRUE]

(***************************************************************************)
(* TechnoJays::TeleopPeriodic.                                             *)
(***************************************************************************)
\* the axes (after the dead band, non-zero when named) and the buttons
Axes ==
    {"driver_left_y", "driver_right_y", "scoring_left_y", "scoring_right_y",
     "scoring_dpad_y"}

\* buttons read as a level, and buttons read as a press edge
LevelButtons == {"LeftTrigger"}

EdgeButtons == {"RightTrigger", "X", "B", "Y", "A", "Start", "Back"}

Controls == Axes \cup LevelButtons \cup EdgeButtons

\* the controls the operators touch during one run of the robot: those of
\* the shooter wheel and feed piston, those used for aiming, or those used
\* for climbing
ShooterControls == {"LeftTrigger", "scoring_dpad_y", "RightTrigger", "X"}

AimingControls == {"driver_left_y", "scoring_left_y", "B", "Y", "A"}

ClimbingControls == {"driver_right_y", "scoring_left_y", "scoring_right_y", "Start", "Back"}

\* the control readings of one tick: the controls of group that are active
Inputs(group) == {in \in SUBSET group : Cardinality(in) <= MaxActive}

Axis(in, a) == IF a \in in THEN 1 ELSE 0

\* never assigned after TechnoJays::Initialize
previous_scoring_dpad_y_ == 0

\* sets the cursors named in F to kFinished
Finish(s, F) == [k \in DOMAIN s |-> IF k \in F THEN kFinished ELSE s[k]]

\* if (routine cursor != kFinished) { if (Routine()) cursor = kFinished; }
RunIfActive(s, cursor, r) ==
    IF s[cursor] # kFinished
    THEN IF r[2] THEN [r[1] EXCEPT ![cursor] = kFinished] ELSE r[1]
    ELSE s

\* "Perform any TeleOp Autonomous routines"
RunAutoRapidFire(s) ==
    RunIfActive(s, "auto_rapid_fire_state_", AutoRapidFire(s, "AutoRapidFire"))

RunAutoShoot(s) ==
    RunIfActive(s, "auto_shoot_state_", AutoShoot(s, "AutoShoot", 100))

RunAutoFindTarget(s, env) ==
    RunIfActive(s, "auto_find_target_state_", AutoFindTarget(s, "AutoFindTarget", env))

RunAutoCycleTarget(s, env) ==
    IF s.auto_cycle_target_state_ # kFinished
    THEN AutoCycleTarget(s, "AutoCycleTarget", env)
    ELSE s

RunAutoFeederHeight(s, env) ==
    RunIfActive(s, "auto_feeder_height_state_",
                AutoFeederHeight(s, "AutoFeederHeight", env))

RunAutoClimbingPrep(s, env) ==
    RunIfActive(s, "auto_climbing_prep_state_",
                AutoClimbingPrep(s, "AutoClimbingPrep", env))

RunAutoClimb(s, env) ==
    RunIfActive(s, "auto_climb_state_", AutoClimb(s, "AutoClimb", env))

RoutineSection(s, env) ==
    RunAutoClimb(
        RunAutoClimbingPrep(
            RunAutoFeederHeight(
                RunAutoCycleTarget(
                    RunAutoFindTarget(RunAutoShoot(RunAutoRapidFire(s)), env),
                    env),
                env),
            env),
        env)

\* one "button pressed and changed" block of the trigger section
Pressed(s, in, button, start, cancel) ==
    IF button \in in THEN [Finish(s, cancel) EXCEPT ![start] = kStep1] ELSE s

\* "Check if a TeleOp Auto routine is requested"
TriggerSection(s, in) ==
    LET t1 == Pressed(s, in, "RightTrigger", "auto_shoot_state_",
                      {"auto_rapid_fire_state_"})
        t2 == Pressed(t1, in, "X", "auto_rapid_fire_state_", {"auto_shoot_state_"})
        t3 == Pressed(t2, in, "B", "auto_find_target_state_",
                      {"auto_cycle_target_state_", "auto_feeder_height_state_",
                       "auto_climbing_prep_state_", "auto_climb_state_"})
        t4 == Pressed(t3, in, "Y", "auto_cycle_target_state_",
                      {"auto_find_target_state_", "auto_feeder_height_state_",
                       "auto_climbing_prep_state_", "auto_climb_state_"})
        t5 == Pressed(t4, in, "A", "auto_feeder_height_state_",
                      {"auto_find_target_state_", "auto_cycle_target_state_",
                       "auto_climbing_prep_state_", "auto_climb_state_"})
        t6 == Pressed(t5, in, "Start", "auto_climbing_prep_state_",
                      {"auto_find_target_state_", "auto_cycle_target_state_",
                       "auto_feeder_height_state_", "auto_climb_state_"})
    IN  Pressed(t6, in, "Back", "auto_climb_state_",
                {"auto_find_target_state_", "auto_cycle_target_state_",
                 "auto_feeder_height_state_", "auto_climbing_prep_state_"})

AllFinished(s, F) == \A k \in F : s[k] = kFinished

\* "Manually control the robot": winch, pitch, shooter wheel, piston, drive
WinchOverride == {"auto_find_target_state_", "auto_cycle_target_state_", "auto_climb_state_"}

PitchOverride ==
    {"auto_find_target_state_", "auto_cycle_target_state_",
     "auto_feeder_height_state_", "auto_climbing_prep_state_", "auto_climb_state_"}

ShooterOverride == {"auto_shoot_state_", "auto_rapid_fire_state_"}

DriveOverride == {"auto_find_target_state_", "auto_cycle_target_state_", "auto_climb_state_"}

\* "Climber / Winch"
ManualWinch(s, in) ==
    IF Axis(in, "scoring_right_y") # 0
    THEN ClimberMove(Finish(s, WinchOverride), "manual", Axis(in, "scoring_right_y"))
    ELSE IF s.auto_climb_state_ = kFinished
         THEN ClimberMove(s, "neutral", 0)
         ELSE s

\* "Control the pitch"
ManualPitch(s, in) ==
    IF Axis(in, "scoring_left_y") # 0
    THEN MovePitch(Finish(s, PitchOverride), "manual", Axis(in, "scoring_left_y"))
    ELSE IF AllFinished(s, PitchOverride)
         THEN MovePitch(s, "neutral", 0)
         ELSE s

\* "Control the shooter"
ManualShooter(s, in) ==
    IF "LeftTrigger" \in in
    THEN Shoot(Finish(s, ShooterOverride), "manual", 100)
    ELSE IF AllFinished(s, ShooterOverride)
         THEN Shoot(s, "neutral", 0)
         ELSE s

\* "Feeder"
ManualFeeder(s, in) ==
    IF /\ Axis(in, "scoring_dpad_y") # 0
       /\ previous_scoring_dpad_y_ # Axis(in, "scoring_dpad_y")
       /\ "LeftTrigger" \in in
    THEN SetPiston(Finish(s, ShooterOverride), "manual", TRUE)
    ELSE IF AllFinished(s, ShooterOverride)
         THEN SetPiston(s, "neutral", FALSE)
         ELSE s

\* the drive block without its neutral branch
ManualDriveNoNeutral(s, in) ==
    IF Axis(in, "driver_left_y") # 0 \/ Axis(in, "driver_right_y") # 0
    THEN TankDrive(Finish(s, DriveOverride), "manual",
                   Axis(in, "driver_left_y"), Axis(in, "driver_right_y"))
    ELSE s

\* "DriveTrain"
ManualDrive(s, in) ==
    IF Axis(in, "driver_left_y") # 0 \/ Axis(in, "driver_right_y") # 0
    THEN TankDrive(Finish(s, DriveOverride), "manual",
                   Axis(in, "driver_left_y"), Axis(in, "driver_right_y"))
    ELSE IF AllFinished(s, DriveOverride)
         THEN TankDrive(s, "neutral", 0, 0)
         ELSE s

ManualSection(s, in) ==
    ManualDrive(ManualFeeder(ManualShooter(ManualPitch(ManualWinch(s, in), in), in), in), in)

\* the body of TechnoJays::TeleopPeriodic; mid is the state between the
\* routine section and the reading of the controls
ControlsSection(mid, in) ==
    [mid |-> mid, state |-> ManualSection(TriggerSection(mid, in), in)]

TeleopBody(s, in, env) == ControlsSection(RoutineSection(s, env), in)

(***************************************************************************)
(* Targeting: starting and stopping the vision worker on a mode change.    *)
(* The worker's task is deleted or restarted by the control thread; the    *)
(* snapshot mutex is created SEM_DELETE_SAFE, so a task that owns it is    *)
(* not deleted until it gives the mutex back.                              *)
(***************************************************************************)
visionVars ==
    <<find_targets_task_, worker_pc, find_targets_semaphore_, particle_report_,
      reader_pc, report, published>>

vars == <<robotVars, visionVars>>

\* the worker's positions between taking and giving the mutex
InRegion == {"locked", "deleted", "filtering", "sorting", "leaving"}

\* the shared report pointer: NULL, or a vector of targets
NULL == [null |-> TRUE, targets |-> << >>]

Vector(targets) == [null |-> FALSE, targets |-> targets]

\* taskDelete / taskRestart of the worker can go ahead
DeleteAllowedUnsafe(pc) == TRUE

DeleteAllowed(pc) == pc \notin InRegion

\* Targeting::StopSearching
StopSearching ==
    IF camera_enabled_ /\ find_targets_task_
    THEN /\ DeleteAllowed(worker_pc)
         /\ find_targets_task_' = FALSE
         /\ worker_pc' = "idle"
    ELSE UNCHANGED <<find_targets_task_, worker_pc>>

\* Targeting::StartSearching: Restart() a live task, Start() otherwise
StartSearching ==
    IF camera_enabled_
    THEN /\ find_targets_task_ => DeleteAllowed(worker_pc)
         /\ find_targets_task_' = TRUE
         /\ worker_pc' = "idle"
    ELSE UNCHANGED <<find_targets_task_, worker_pc>>

\* Targeting::SetRobotState
TargetingSetRobotState(state) ==
    /\ reader_pc = "idle"
    /\ IF state = kDisabled THEN StopSearching ELSE StartSearching
    /\ UNCHANGED <<find_targets_semaphore_, particle_report_, reader_pc, report,
                   published>>

\* the mode entry that leaves the motor safety of every motor enabled
SubsystemsSetRobotStateSafetyOn(s, state) ==
    [s EXCEPT !.drive_timer_ = TimerStop(@), !.pitch_timer_ = TimerStop(@),
              !.subsystem_state_ = [u \in Subsystems |-> state],
              !.safety_enabled_ = [m \in Motors |-> TRUE]]

\* the SetRobotState of Climber, Feeder, Shooter, Targeting, DriveTrain and
\* UserInterface, as each mode entry calls them: each records the state,
\* the motion timers stop, and SetSafetyEnabled is called on each motor
SubsystemsSetRobotState(s, state) ==
    [s EXCEPT !.drive_timer_ = TimerStop(@), !.pitch_timer_ = TimerStop(@),
              !.subsystem_state_ = [u \in Subsystems |-> state],
              !.safety_enabled_ =
                  [m \in Motors |->
                      IF state = kDisabled THEN TRUE
                      ELSE IF state = kTeleop THEN TRUE
                      ELSE IF state = kAutonomous THEN FALSE
                      ELSE @[m]]]

\* what the last handler did
Observation(handler, in, mid, s, finished) ==
    [handler |-> handler, input |-> in, mid |-> mid,
     cmds |-> s.cmds, calls |-> s.calls, captured |-> s.captured,
     finished |-> finished]

(***************************************************************************)
(* Mode entry.                                                             *)
(***************************************************************************)
\* AutoScript::GetAvailableScripts returns the listing of the disk, the
\* script files it holds as indices into ScriptDir
GetAvailableScripts(d) == d

\* the runs explored: the controls in use, the disk's contents and the
\* MAXIMUM_LINEAR_SPEED_CHANGE of the drive train's parameter file (0 is the
\* default of DriveTrain::Initialize)
Setups ==
    {<<ShooterControls, <<1, 2>>, 0>>, <<AimingControls, << >>, 0>>,
     <<ClimbingControls, << >>, 0>>, <<ClimbingControls, << >>, 1>>,
     <<ClimbingControls, << >>, 2>>, <<{}, <<3>>, 1>>, <<{}, <<4, 5>>, 1>>,
     <<{}, <<6>>, 0>>}

DisabledInit ==
    /\ UNCHANGED <<controls, disk, maximum_linear_speed_change_, motionVars>>
    /\ robot_state_ # kDisabled
    /\ robot_state_' = kDisabled
    /\ TargetingSetRobotState(kDisabled)
    /\ LET files == GetAvailableScripts(disk)
       IN
         /\ autoscript_files_' = files
         /\ IF Len(files) > 0
            THEN /\ autoscript_files_counter_' = 1
                 /\ autoscript_file_name_' = files[1]
            ELSE UNCHANGED <<autoscript_files_counter_, autoscript_file_name_>>
    /\ LET s == [SubsystemsSetRobotState(Cur, kDisabled)
                    EXCEPT !.timer_ = TimerStart(TimerReset(TimerStop(@)))]
       IN  /\ Commit(s)
           /\ tick' = Observation("DisabledInit", {}, Cursors(s), s, FALSE)
    /\ UNCHANGED autoscript_commands

AutonomousInit ==
    /\ UNCHANGED <<controls, disk, maximum_linear_speed_change_, motionVars>>
    /\ robot_state_ \in {kDisabled, kTeleop}
    /\ robot_state_' = kAutonomous
    /\ TargetingSetRobotState(kAutonomous)
    /\ LET s0 == [Cur EXCEPT !.timer_ = TimerReset(TimerStop(@))]
           commands == ReadScript(autoscript_file_name_)
           n == GetNextCommand(commands, 1)
           s1 == IF autoscript_file_name_ # 0
                 THEN [s0 EXCEPT !.current_command_complete_ = FALSE,
                                 !.current_command_in_progress_ = FALSE,
                                 !.current_command_ = n[1],
                                 !.command_iterator = n[2]]
                 ELSE s0
           s == SubsystemsSetRobotState(s1, kAutonomous)
       IN  /\ autoscript_commands' =
                IF autoscript_file_name_ # 0 THEN commands ELSE autoscript_commands
           /\ Commit(s)
           /\ tick' = Observation("AutonomousInit", {}, Cursors(s), s, FALSE)
    /\ UNCHANGED <<autoscript_files_, autoscript_file_name_, autoscript_files_counter_>>

TeleopInit ==
    /\ UNCHANGED <<controls, disk, maximum_linear_speed_change_, motionVars>>
    /\ robot_state_ \in {kDisabled, kAutonomous}
    /\ robot_state_' = kTeleop
    /\ TargetingSetRobotState(kTeleop)
    /\ LET s == SubsystemsSetRobotState([Cur EXCEPT !.timer_ = TimerReset(TimerStop(@))],
                                       kTeleop)
       IN  /\ Commit(s)
           /\ tick' = Observation("TeleopInit", {}, Cursors(s), s, FALSE)
    /\ UNCHANGED scriptVars

(***************************************************************************)
(* Periodic handlers.  The vision worker is seen through the report a      *)
(* FindTarget tick copies out (env.snap).                                  *)
(***************************************************************************)
\* the camera-boot wait of DisabledPeriodic, s the motors set inactive
CameraBootWait(s) ==
    IF TimerGet(s.timer_) >= camera_boot_time_
    THEN [s EXCEPT !.timer_ = TimerReset(TimerStop(@))]
    ELSE s

DisabledBody(s) == CameraBootWait(AllMotorsInactive(s, "neutral"))

DisabledPeriodic ==
    /\ UNCHANGED <<controls, disk, maximum_linear_speed_change_, motionVars>>
    /\ robot_state_ = kDisabled
    /\ \E start_pressed \in BOOLEAN, s \in {DisabledBody(Elapse(Cur, TickTime))} :
         LET cycle == start_pressed /\ Len(autoscript_files_) > 0
             counter == IF autoscript_files_counter_ + 1 > Len(autoscript_files_)
                        THEN 1
                        ELSE autoscript_files_counter_ + 1
         IN  /\ Commit(s)
             /\ autoscript_files_counter_' =
                    IF cycle THEN counter ELSE autoscript_files_counter_
             /\ autoscript_file_name_' =
                    IF cycle THEN autoscript_files_[counter] ELSE autoscript_file_name_
             /\ tick' = Observation("DisabledPeriodic",
                                    IF start_pressed THEN {"Start"} ELSE {},
                                    Cursors(s), s, FALSE)
    /\ robot_state_' = robot_state_
    /\ UNCHANGED <<autoscript_files_, autoscript_commands, visionVars>>

\* the readings an autonomous tick depends on
AutonomousEnvs(s) ==
    LET c == s.current_command_.command
        find == c = "findtarget"
        step == IF s.current_command_in_progress_ THEN s.auto_find_target_state_ ELSE kStep1
        aiming == find /\ step = kStep3
    IN  Envs(c \in {"pitchposition", "pitchtime", "pitchangle"}
                \/ (aiming /\ s.aim_state_ \in {kStep3, kStep4}),
             c \in {"adjustheading", "drivedistance", "turnheading"}
                \/ (aiming /\ s.aim_state_ \in {kStep1, kStep2}),
             FALSE,
             find /\ step = kStep1,
             find /\ step = kStep2)

AutonomousPeriodic ==
    /\ UNCHANGED <<controls, disk, maximum_linear_speed_change_, motionVars>>
    /\ robot_state_ = kAutonomous
    /\ \E env \in AutonomousEnvs(Cur) :
         \E r \in {AutonomousBody(Elapse(Cur, TickTime), autoscript_file_name_,
                                  autoscript_commands, env)} :
            /\ Commit(r.state)
            /\ tick' = Observation("AutonomousPeriodic", {}, Cursors(r.state),
                                   r.state, r.finished)
    /\ robot_state_' = robot_state_
    /\ UNCHANGED <<scriptVars, visionVars>>

\* the readings a teleop tick depends on
TeleopEnvs(s) ==
    LET aiming == \/ s.auto_find_target_state_ = kStep3
                  \/ s.auto_cycle_target_state_ = kStep2
    IN  Envs(\/ aiming /\ s.aim_state_ \in {kStep3, kStep4}
             \/ s.auto_feeder_height_state_ = kStep1
             \/ s.auto_climbing_prep_state_ = kStep1
             \/ s.auto_climb_state_ \in {kStep1, kStep2},
             aiming /\ s.aim_state_ \in {kStep1, kStep2},
             s.auto_climb_state_ = kStep2,
             s.auto_find_target_state_ = kStep1,
             s.auto_find_target_state_ = kStep2)

TeleopPeriodic ==
    /\ UNCHANGED <<controls, disk, maximum_linear_speed_change_, motionVars>>
    /\ robot_state_ = kTeleop
    /\ \E in \in Inputs(controls), env \in TeleopEnvs(Cur) :
         \E r \in {TeleopBody(Elapse(Cur, TickTime), in, env)} :
            /\ Commit(r.state)
            /\ tick' = Observation("TeleopPeriodic", in, Cursors(r.mid),
                                   r.state, FALSE)
    /\ robot_state_' = robot_state_
    /\ UNCHANGED <<scriptVars, visionVars>>

(***************************************************************************)
(* The motion calls of Shooter, Climber and DriveTrain with their numbers. *)
(* p is the parameter set of the object called; its fields stand for the   *)
(* members the call reads: threshold_ for encoder_threshold_,              *)
(* distance_threshold_, heading_threshold_ or time_threshold_,             *)
(* far_threshold_ / medium_threshold_ for the auto_far_ / auto_medium_     *)
(* thresholds, far_ratio_ / medium_ratio_ / near_ratio_ for the auto speed *)
(* ratios, max_limit_ / min_limit_ for encoder_max_limit_ /                *)
(* encoder_min_limit_, sensor_enabled_ for encoder_enabled_, gyro_enabled_ *)
(* or accelerometer_enabled_, motor_enabled_ for pitch_enabled_,           *)
(* climber_enabled_ or robot_drive_ != NULL.                               *)
(* A call hands back its return value (reached), whether it sent a value   *)
(* to the motor controller (sent, val) and whether it stopped the timer.   *)
(***************************************************************************)
\* largest sensor reading and largest target
MaxPos == 4

Positions == 0..MaxPos

\* the speed ratios a caller passes
Speeds == {1, 2}

pitch_up_direction_ == 1

pitch_down_direction_ == -1

up_direction_ == 1

down_direction_ == -1

forward_direction_ == 1

backward_direction_ == -1

left_direction_ == -1

right_direction_ == 1

\* enum Direction
Direction == {"kForward", "kBackward", "kUp", "kDown"}

\* "return true" before anything was sent to the motor controller
Returned(reached) == [reached |-> reached, sent |-> FALSE, val |-> 0, stop |-> FALSE]

\* controller->Set(val) followed by "return reached"
Commanded(val, reached) == [reached |-> reached, sent |-> TRUE, val |-> val, stop |-> FALSE]

\* timer_->Stop() on the way out
Stopping(r) == [r EXCEPT !.stop = TRUE]

\* the tier chain read with the comparisons turned around
TierRatioInverted(p, error) ==
    IF error < p.far_threshold_ THEN p.far_ratio_
    ELSE IF error < p.medium_threshold_ THEN p.medium_ratio_
    ELSE p.near_ratio_

\* the far / medium / near chain every motion call ends with
TierRatio(p, error) ==
    IF error > p.far_threshold_ THEN p.far_ratio_
    ELSE IF error > p.medium_threshold_ THEN p.medium_ratio_
    ELSE p.near_ratio_

\* the abort test that overlooks a disabled sensor
UnavailableMotorOnly(p) == ~p.motor_enabled_

\* "Abort if the pitch control or encoder are not available"
Unavailable(p) == ~p.sensor_enabled_ \/ ~p.motor_enabled_

\* "Check the encoder position against the boundaries if boundaries enabled"
BeyondLimit(p, encoder_count, encoder_count_) ==
    \/ p.max_limit_ > 0 /\ encoder_count > encoder_count_
                        /\ encoder_count_ > p.max_limit_
    \/ p.min_limit_ > 0 /\ encoder_count < encoder_count_
                        /\ encoder_count_ < p.min_limit_

\* the boundary check of the timed calls, by direction
BeyondLimitTimed(p, direction, encoder_count_) ==
    /\ p.sensor_enabled_
    /\ \/ p.max_limit_ > 0 /\ direction = "kUp" /\ encoder_count_ > p.max_limit_
       \/ p.min_limit_ > 0 /\ direction = "kDown" /\ encoder_count_ < p.min_limit_

\* Shooter::SetPitch(int, float) after its boundary check
PitchToCount(p, encoder_count_, encoder_count, speed) ==
    IF Abs(encoder_count - encoder_count_) <= p.threshold_
    THEN Commanded(0, TRUE)
    ELSE IF encoder_count - encoder_count_ > 0
         THEN Commanded(pitch_up_direction_ * speed
                            * TierRatio(p, Abs(encoder_count - encoder_count_)), FALSE)
         ELSE Commanded(pitch_down_direction_ * speed
                            * TierRatio(p, Abs(encoder_count - encoder_count_)), FALSE)

\* Shooter::SetPitch(int, float)
Shooter_SetPitch(p, encoder_count_, encoder_count, speed) ==
    IF Unavailable(p) THEN Returned(TRUE)
    ELSE IF BeyondLimit(p, encoder_count, encoder_count_) THEN Returned(TRUE)
    ELSE PitchToCount(p, encoder_count_, encoder_count, speed)

\* the conversion with the fraction rounded up instead of down
AngleToCountCeiling(p, angle) ==
    -((-(p.angle_linear_fit_gradient_ * angle)) \div 2) + p.angle_linear_fit_constant_

\* "Convert angle to encoder position": (int) floor(gradient * angle +
\* constant), the angle being given in half degrees
AngleToCount(p, angle) ==
    (p.angle_linear_fit_gradient_ * angle) \div 2 + p.angle_linear_fit_constant_

\* Shooter::SetPitchAngle
Shooter_SetPitchAngle(p, encoder_count_, angle, speed) ==
    IF Unavailable(p) THEN Returned(TRUE)
    ELSE IF BeyondLimit(p, AngleToCount(p, angle), encoder_count_) THEN Returned(TRUE)
    ELSE PitchToCount(p, encoder_count_, AngleToCount(p, angle), speed)

\* Climber::Set(int, float)
Climber_Set(p, encoder_count_, encoder_count, speed) ==
    IF Unavailable(p) THEN Returned(TRUE)
    ELSE IF BeyondLimit(p, encoder_count, encoder_count_) THEN Commanded(0, TRUE)
    ELSE IF Abs(encoder_count - encoder_count_) <= p.threshold_
    THEN Commanded(0, TRUE)
    ELSE IF encoder_count - encoder_count_ > 0
         THEN Commanded(up_direction_ * speed
                            * TierRatio(p, Abs(encoder_count - encoder_count_)), FALSE)
         ELSE Commanded(down_direction_ * speed
                            * TierRatio(p, Abs(encoder_count - encoder_count_)), FALSE)

\* DriveTrain::Drive(double, float) with distance_left worked out
DriveLeft(p, directional_length, distance_left, speed) ==
    IF distance_left < p.threshold_
    THEN Commanded(0, TRUE)
    ELSE Commanded((IF directional_length > 0 THEN forward_direction_
                                              ELSE backward_direction_)
                        * speed * TierRatio(p, distance_left), FALSE)

\* DriveTrain::Drive(double, float)
DriveTrain_Drive(p, distance_traveled_, directional_length, speed) ==
    IF Unavailable(p) THEN Returned(TRUE)
    ELSE DriveLeft(p, directional_length,
                   Abs(directional_length) - Abs(distance_traveled_), speed)

\* the turn towards angle_remaining of DriveTrain::Turn and AdjustHeading
TurnRemaining(p, angle_remaining, speed) ==
    IF Abs(angle_remaining) < p.threshold_
    THEN Commanded(0, TRUE)
    ELSE Commanded((IF angle_remaining < 0 THEN left_direction_ ELSE right_direction_)
                        * speed * TierRatio(p, Abs(angle_remaining)), FALSE)

\* DriveTrain::Turn(float, float)
DriveTrain_Turn(p, gyro_angle_, heading, speed) ==
    IF Unavailable(p) THEN Returned(TRUE)
    ELSE TurnRemaining(p, heading - gyro_angle_, speed)

\* "if (!adjustment_in_progress_) initial_heading_ = gyro_angle_"
HeadingAtStart(in_progress, initial_heading, gyro_angle_) ==
    IF in_progress THEN initial_heading ELSE gyro_angle_

\* DriveTrain::AdjustHeading: <<result, initial_heading_, adjustment_in_progress_>>
DriveTrain_AdjustHeading(p, in_progress, initial_heading, gyro_angle_, adjustment, speed) ==
    IF Unavailable(p)
    THEN <<Returned(TRUE), initial_heading, FALSE>>
    ELSE <<TurnRemaining(p, (HeadingAtStart(in_progress, initial_heading, gyro_angle_)
                                + adjustment) - gyro_angle_, speed),
           HeadingAtStart(in_progress, initial_heading, gyro_angle_),
           Abs((HeadingAtStart(in_progress, initial_heading, gyro_angle_) + adjustment)
                  - gyro_angle_) >= p.threshold_>>

\* the end of the timed calls: stop when the time is up, else keep moving
TimedMove(p, time_left, directional_speed, speed) ==
    IF time_left < p.threshold_ \/ time_left < 0
    THEN Stopping(Commanded(0, TRUE))
    ELSE Commanded(directional_speed * speed * TierRatio(p, time_left), FALSE)

\* Shooter::SetPitch(double, Direction, float)
Shooter_SetPitchTime(p, elapsed_time, encoder_count_, time, direction, speed) ==
    IF ~p.motor_enabled_ THEN Returned(TRUE)
    ELSE IF BeyondLimitTimed(p, direction, encoder_count_) THEN Returned(TRUE)
    ELSE TimedMove(p, time - elapsed_time,
                   IF direction = "kUp" THEN pitch_up_direction_
                                        ELSE pitch_down_direction_, speed)

\* Climber::Set(double, Direction, float)
Climber_SetTime(p, elapsed_time, encoder_count_, time, direction, speed) ==
    IF ~p.motor_enabled_ THEN Returned(TRUE)
    ELSE IF BeyondLimitTimed(p, direction, encoder_count_)
    THEN Stopping(Commanded(0, TRUE))
    ELSE TimedMove(p, time - elapsed_time,
                   IF direction = "kUp" THEN up_direction_ ELSE down_direction_, speed)

\* DriveTrain::Drive(double, Direction, float)
DriveTrain_DriveTime(p, elapsed_time, time, direction, speed) ==
    IF ~p.motor_enabled_ THEN Returned(TRUE)
    ELSE TimedMove(p, time - elapsed_time,
                   IF direction = "kForward" THEN forward_direction_
                                             ELSE backward_direction_, speed)

\* the parameter sets explored: everything present or one part missing,
\* travel bounds off (the default) or on, tier ratios rising or falling
\* with the distance
Configs ==
    {[sensor_enabled_ |-> e[1], motor_enabled_ |-> e[2],
      threshold_ |-> 1, medium_threshold_ |-> 2, far_threshold_ |-> 3,
      near_ratio_ |-> r[1], medium_ratio_ |-> r[2], far_ratio_ |-> r[3],
      max_limit_ |-> l[1], min_limit_ |-> l[2],
      angle_linear_fit_gradient_ |-> 3, angle_linear_fit_constant_ |-> -1] :
        e \in {<<TRUE, TRUE>>, <<FALSE, TRUE>>, <<TRUE, FALSE>>},
        r \in {<<1, 2, 3>>, <<3, 2, 1>>},
        l \in {<<-1, -1>>, <<MaxPos - 2, 2>>}}

\* the operations that steer by a sensor reading
PositionOps == {"SetPitch", "SetPitchAngle", "ClimberSet", "Drive", "Turn", "AdjustHeading"}

\* the operations that steer by the time that has passed
TimedOps == {"SetPitchTime", "ClimberSetTime", "DriveTime"}

\* no call made yet, or none since the readings last changed
NoCall == [op |-> "none", input |-> <<0, "", 0>>, initial |-> 0, r |-> Returned(FALSE)]

\* the record of one call: the operation, its arguments, the
\* initial_heading_ it worked from and what it handed back
Called(name, a, d, speed, initial, r) ==
    [op |-> name, input |-> <<a, d, speed>>, initial |-> initial, r |-> r]

\* the heights Targeting::GetCameraHeightOfTarget returns, in units of
\* 1e-7 feet: 9.177083, 8.2604167, 2.583 and 0.0 for no match
HighGoalHeight == 91770830

MediumGoalHeight == 82604167

LowGoalHeight == 25830000

NoGoalHeight == 0

\* the calibrated aspect ratios of the three goals and the match threshold
\* of Targeting's parameter file: apart or overlapping windows, the ratios
\* in either order
TargetConfigs ==
    [target_rectangle_ratio_high_ : {2, 3},
     target_rectangle_ratio_medium_ : {2},
     target_rectangle_ratio_low_ : {1, 3},
     target_rectangle_ratio_threshold_ : {1, 2}]

\* Targeting::GetCameraHeightOfTarget of a target with that aspect ratio
Targeting_GetCameraHeightOfTarget(t, rectangle_ratio) ==
    IF Abs(rectangle_ratio - t.target_rectangle_ratio_high_)
           < t.target_rectangle_ratio_threshold_
    THEN HighGoalHeight
    ELSE IF Abs(rectangle_ratio - t.target_rectangle_ratio_medium_)
                < t.target_rectangle_ratio_threshold_
    THEN MediumGoalHeight
    ELSE IF Abs(rectangle_ratio - t.target_rectangle_ratio_low_)
                < t.target_rectangle_ratio_threshold_
    THEN LowGoalHeight
    ELSE NoGoalHeight

\* Targeting::GetEnumHeightOfTarget
Targeting_GetEnumHeightOfTarget(t, rectangle_ratio) ==
    LET height == Targeting_GetCameraHeightOfTarget(t, rectangle_ratio)
    IN  IF height = HighGoalHeight THEN kHigh
        ELSE IF height = MediumGoalHeight THEN kMedium
        ELSE IF height = LowGoalHeight THEN kLow
        ELSE kUnknown

\* ANGLE_OF_TARGET_VERTICAL_OFFSET, 0.0 unless the parameter file sets it
angle_of_target_vertical_offset_ == 0

\* Targeting::GetVerticalAngleOfTarget: atan(height / distance) in degrees
\* plus the offset.  The distance is positive, so the arc tangent is 0 for
\* the height 0.0 and lies strictly between 0 and 90 for a goal's height;
\* elevation is that value for the target's distance
Targeting_GetVerticalAngleOfTarget(t, rectangle_ratio, elevation) ==
    IF Targeting_GetCameraHeightOfTarget(t, rectangle_ratio) = NoGoalHeight
    THEN 0 + angle_of_target_vertical_offset_
    ELSE elevation + angle_of_target_vertical_offset_

\* Targeting::TargetHeight, as GetEnumHeightOfTarget classifies a target
Heights == {kUnknown, kLow, kMedium, kHigh}

\* the captured reports, each target given by its classified height
Reports == UNION {[1..n -> Heights] : n \in 0..MaxTargets}

\* the loop of TechnoJays::SelectTarget from index i on: the first index
\* whose height matches, or the size of the report when none does
RECURSIVE SearchHeight(_, _, _)
SearchHeight(targets_report, height, i) ==
    IF i >= Len(targets_report) THEN Len(targets_report)
    ELSE IF targets_report[i + 1] = height THEN i
    ELSE SearchHeight(targets_report, height, i + 1)

\* no report captured, nothing asked for, nothing selected: target is
\* current_target_ (0 the empty report GetTargets leaves, else the entry
\* copied, counted from 1), location is current_target_vector_location_
NoSelection ==
    [asked |-> FALSE, report |-> << >>, height |-> kUnknown, target |-> 0, location |-> 0]

\* the outcome of one selection
Selected(targets_report, height, target, location) ==
    [asked |-> TRUE, report |-> targets_report, height |-> height,
     target |-> target, location |-> location]

\* SelectTarget with the two fallbacks exchanged
SelectTargetByHeightSwapped(targets_report, height, location) ==
    IF Len(targets_report) = 0
    THEN Selected(targets_report, height, 0, location)
    ELSE IF SearchHeight(targets_report, height, 0) < Len(targets_report)
    THEN Selected(targets_report, height, SearchHeight(targets_report, height, 0) + 1,
                  SearchHeight(targets_report, height, 0))
    ELSE IF height # kLow
    THEN Selected(targets_report, height, 1, 0)
    ELSE Selected(targets_report, height, Len(targets_report), Len(targets_report) - 1)

\* TechnoJays::SelectTarget on a freshly captured report; location is the
\* current_target_vector_location_ left by the selection before
SelectTargetByHeight(targets_report, height, location) ==
    IF Len(targets_report) = 0
    THEN Selected(targets_report, height, 0, location)
    ELSE IF SearchHeight(targets_report, height, 0) < Len(targets_report)
    THEN Selected(targets_report, height, SearchHeight(targets_report, height, 0) + 1,
                  SearchHeight(targets_report, height, 0))
    ELSE IF height = kLow
    THEN Selected(targets_report, height, 1, 0)
    ELSE Selected(targets_report, height, Len(targets_report), Len(targets_report) - 1)

\* the stand-alone motion state while the robot program is explored
InitIdle ==
    /\ op = "none"
    /\ par \in {c \in Configs : c.sensor_enabled_ /\ c.motor_enabled_
                                /\ c.max_limit_ < 0 /\ c.near_ratio_ = 1}
    /\ sensor = 0
    /\ initial_heading_ = 0
    /\ call = NoCall
    /\ selection = NoSelection

(***************************************************************************)
(* The state after TechnoJays::Initialize, and the robot's behaviours.     *)
(***************************************************************************)
StoppedTimer == [running |-> FALSE, t |-> 0]

InitRobot ==
    /\ robot_state_ = "Booted"
    /\ auto_shoot_state_ = kFinished
    /\ aim_state_ = kFinished
    /\ auto_find_target_state_ = kFinished
    /\ auto_rapid_fire_state_ = kFinished
    /\ auto_cycle_target_state_ = kFinished
    /\ auto_feeder_height_state_ = kFinished
    /\ auto_climbing_prep_state_ = kFinished
    /\ auto_climb_state_ = kFinished
    /\ auto_climb_pitch_finished_ = FALSE
    /\ auto_climb_winch_finished_ = FALSE
    /\ auto_shoot_timer_ = StoppedTimer
    /\ targets_report_ = 0
    /\ current_target_ = 0
    /\ current_target_vector_location_ = 0
    /\ adjustment_in_progress_ = FALSE
    /\ previous_linear_speed_ = 0
    /\ timer_ = StoppedTimer
    /\ drive_timer_ = StoppedTimer
    /\ pitch_timer_ = StoppedTimer
    /\ subsystem_state_ = [u \in Subsystems |-> kDisabled]
    /\ safety_enabled_ = [m \in Motors |-> TRUE]
    /\ autoscript_files_ = << >>
    /\ autoscript_file_name_ = 0
    /\ autoscript_files_counter_ = 0
    /\ autoscript_commands = << >>
    /\ command_iterator = 1
    /\ current_command_ = NoCommand
    /\ current_command_complete_ = FALSE
    /\ current_command_in_progress_ = FALSE
    /\ tick = Observation("Initialize", {}, Cursors(Cur), Cur, FALSE)
    /\ \E setup \in Setups :
         /\ controls = setup[1]
         /\ disk = setup[2]
         /\ maximum_linear_speed_change_ = setup[3]

InitVision ==
    /\ find_targets_task_ = FALSE
    /\ worker_pc = "idle"
    /\ find_targets_semaphore_ = "none"
    /\ particle_report_ = NULL
    /\ reader_pc = "idle"
    /\ published = NULL
    /\ report = [ok |-> FALSE, targets |-> << >>]

Init == InitRobot /\ InitVision /\ InitIdle

Next ==
    \/ DisabledInit
    \/ AutonomousInit
    \/ TeleopInit
    \/ DisabledPeriodic
    \/ AutonomousPeriodic
    \/ TeleopPeriodic

Spec == Init /\ [][Next]_vars

(***************************************************************************)
(* Targeting: the vision worker (FindTargetsTask) and the reader           *)
(* (GetTargets), step by step.  A particle is its vertical center of mass. *)
(***************************************************************************)
Particles == [center_mass_y : 1..MaxY]

\* the reports GetOrderedParticleAnalysisReports can return
RawReports ==
    UNION {[1..n -> Particles] : n \in 0..MaxTargets}

\* Targeting::CompareTargets, and its result converted to bool by std::sort
CompareTargets(t1, t2) ==
    CASE t1.center_mass_y > t2.center_mass_y -> 1
      [] t1.center_mass_y < t2.center_mass_y -> -1
      [] OTHER -> 0

Comp(t1, t2) == CompareTargets(t1, t2) # 0

\* a comparator handed to std::sort has to be a strict weak ordering; it
\* is one on a vector only if it is irreflexive and asymmetric there
StrictWeakOn(v) ==
    \A i, j \in 1..Len(v) : ~(Comp(v[i], v[j]) /\ Comp(v[j], v[i]))

Reorderings(v) ==
    {[i \in 1..Len(v) |-> v[f[i]]] :
        f \in {g \in [1..Len(v) -> 1..Len(v)] : \A i, j \in 1..Len(v) : g[i] = g[j] => i = j}}

\* std::sort(begin, end, CompareTargets): the vectors it can leave behind
SortOutcomes(v) == IF StrictWeakOn(v) THEN {v} ELSE Reorderings(v)

\* the positions of the particle the filter can erase next, 0 for none:
\* the verdict rests on boundingRect and particleArea, which a particle of
\* the model does not carry
NextBad(v) == 0..Len(v)

Erase(v, i) == [j \in 1..(Len(v) - 1) |-> IF j < i THEN v[j] ELSE v[j + 1]]

\* semTake can return at once
SemFreeBroken(sem) == TRUE

SemFree(sem) == sem = "none"

\* semGive that the control thread leaves out
GiveWorkerOnly(owner) ==
    IF owner = "worker"
    THEN IF reader_pc = "pending"
         THEN find_targets_semaphore_' = "reader" /\ reader_pc' = "copying"
         ELSE find_targets_semaphore_' = "none" /\ reader_pc' = reader_pc
    ELSE find_targets_semaphore_' = find_targets_semaphore_ /\ worker_pc' = worker_pc

\* semGive by owner: the mutex passes to the task pended on it, if any
Give(owner) ==
    IF owner = "worker"
    THEN IF reader_pc = "pending"
         THEN find_targets_semaphore_' = "reader" /\ reader_pc' = "copying"
         ELSE find_targets_semaphore_' = "none" /\ reader_pc' = reader_pc
    ELSE IF worker_pc = "pending" /\ find_targets_task_
         THEN find_targets_semaphore_' = "worker" /\ worker_pc' = "locked"
         ELSE find_targets_semaphore_' = "none" /\ worker_pc' = worker_pc

\* CRITICAL_REGION(find_targets_semaphore_) in FindTargetsTask
WorkerTake ==
    /\ find_targets_task_ /\ worker_pc = "idle"
    /\ IF SemFree(find_targets_semaphore_)
       THEN find_targets_semaphore_' = "worker" /\ worker_pc' = "locked"
       ELSE find_targets_semaphore_' = find_targets_semaphore_ /\ worker_pc' = "pending"
    /\ UNCHANGED <<robotVars, find_targets_task_, particle_report_, reader_pc, report,
                   published>>

\* SafeDelete(particle_report_)
WorkerDelete ==
    /\ find_targets_task_ /\ worker_pc = "locked"
    /\ particle_report_' = NULL
    /\ worker_pc' = "deleted"
    /\ UNCHANGED <<robotVars, find_targets_task_, find_targets_semaphore_, reader_pc,
                   report, published>>

\* particle_report_ = convex_hull_image->GetOrderedParticleAnalysisReports()
WorkerAssign ==
    /\ find_targets_task_ /\ worker_pc = "deleted"
    /\ \E raw \in RawReports :
         /\ particle_report_' = Vector(raw)
         /\ worker_pc' = IF Len(raw) > 0 THEN "filtering" ELSE "leaving"
    /\ UNCHANGED <<robotVars, find_targets_task_, find_targets_semaphore_, reader_pc,
                   report, published>>

\* one turn of the loop that erases the bad targets
WorkerFilter ==
    /\ find_targets_task_ /\ worker_pc = "filtering"
    /\ LET v == particle_report_.targets
       IN  \E bad \in NextBad(v) :
             IF bad # 0
             THEN /\ particle_report_' = Vector(Erase(v, bad))
                  /\ worker_pc' = worker_pc
             ELSE /\ particle_report_' = particle_report_
                  /\ worker_pc' = "sorting"
    /\ UNCHANGED <<robotVars, find_targets_task_, find_targets_semaphore_, reader_pc,
                   report, published>>

\* sort(particle_report_->begin(), particle_report_->end(), CompareTargets)
WorkerSort ==
    /\ find_targets_task_ /\ worker_pc = "sorting"
    /\ \E v \in SortOutcomes(particle_report_.targets) :
         particle_report_' = Vector(v)
    /\ worker_pc' = "leaving"
    /\ UNCHANGED <<robotVars, find_targets_task_, find_targets_semaphore_, reader_pc,
                   report, published>>

\* END_REGION: the cycle's report is published
WorkerGive ==
    /\ find_targets_task_ /\ worker_pc = "leaving"
    /\ Give("worker")
    /\ worker_pc' = "idle"
    /\ published' = particle_report_
    /\ UNCHANGED <<robotVars, find_targets_task_, particle_report_, report>>

\* an exception thrown while the image is acquired and filtered, or by
\* GetOrderedParticleAnalysisReports; the Synchronized object gives the
\* mutex back during unwinding and catch (exception&) resumes the loop
WorkerFault ==
    /\ find_targets_task_ /\ worker_pc \in {"idle", "deleted"}
    /\ IF worker_pc = "deleted"
       THEN Give("worker")
       ELSE UNCHANGED <<find_targets_semaphore_, reader_pc>>
    /\ worker_pc' = "idle"
    /\ UNCHANGED <<robotVars, find_targets_task_, particle_report_, report,
                   published>>

\* TechnoJays::GetTargets erases the old report and calls
\* Targeting::GetTargets: CRITICAL_REGION
ReaderTake ==
    /\ robot_state_ \in {kAutonomous, kTeleop}
    /\ camera_enabled_
    /\ reader_pc = "idle"
    /\ report' = [ok |-> FALSE, targets |-> << >>]
    /\ IF SemFree(find_targets_semaphore_)
       THEN find_targets_semaphore_' = "reader" /\ reader_pc' = "copying"
       ELSE find_targets_semaphore_' = find_targets_semaphore_ /\ reader_pc' = "pending"
    /\ UNCHANGED <<robotVars, find_targets_task_, worker_pc, particle_report_,
                   published>>

\* the copy of the report, the return and the end of the region
ReaderCopy ==
    /\ reader_pc = "copying"
    /\ report' = [ok |-> ~particle_report_.null,
                  targets |-> particle_report_.targets]
    /\ Give("reader")
    /\ reader_pc' = "idle"
    /\ UNCHANGED <<robotVars, find_targets_task_, particle_report_,
                   published>>

WorkerStep ==
    \/ WorkerTake
    \/ WorkerDelete
    \/ WorkerAssign
    \/ WorkerFilter
    \/ WorkerSort
    \/ WorkerGive
    \/ WorkerFault

\* the steps of the worker inside the critical region
WorkerRegionStep ==
    \/ WorkerDelete
    \/ WorkerAssign
    \/ WorkerFilter
    \/ WorkerSort
    \/ WorkerGive

NextVision ==
    \/ DisabledInit
    \/ AutonomousInit
    \/ TeleopInit
    \/ WorkerTake
    \/ WorkerDelete
    \/ WorkerAssign
    \/ WorkerFilter
    \/ WorkerSort
    \/ WorkerGive
    \/ WorkerFault
    \/ ReaderTake
    \/ ReaderCopy

\* the vision hand-off is explored with no script on the disk
InitVisionOnly ==
    Init /\ controls = ClimbingControls /\ disk = << >>
         /\ maximum_linear_speed_change_ = 0

SpecVision == InitVisionOnly /\ [][NextVision]_vars

\* the worker keeps running while it owns the mutex (the mutex is
\* SEM_INVERSION_SAFE), and the control thread finishes a copy it began
SpecVisionFair ==
    SpecVision /\ WF_vars(WorkerRegionStep) /\ WF_vars(ReaderCopy)

(***************************************************************************)
(* The motion calls exercised on their own: one operation per run, called  *)
(* with any arguments while the sensor readings and the time move on.      *)
(***************************************************************************)
\* distances and heading adjustments carry a sign
SignedPositions == (0 - MaxPos)..MaxPos

\* what a motion call leaves alone
MotionFrame ==
    UNCHANGED <<robot_state_, progVars, scriptVars, tick, controls, disk,
                maximum_linear_speed_change_, visionVars, op, par, selection>>

\* shooter_->SetPitch(encoder_count, speed)
CallSetPitch ==
    /\ op = "SetPitch"
    /\ \E encoder_count \in Positions, speed \in Speeds :
         call' = Called("SetPitch", encoder_count, "", speed, 0,
                        Shooter_SetPitch(par, sensor, encoder_count, speed))
    /\ UNCHANGED <<sensor, initial_heading_, unitVars>>
    /\ MotionFrame

\* shooter_->SetPitchAngle(angle, speed)
CallSetPitchAngle ==
    /\ op = "SetPitchAngle"
    /\ \E angle \in Positions, speed \in Speeds :
         call' = Called("SetPitchAngle", angle, "", speed, 0,
                        Shooter_SetPitchAngle(par, sensor, angle, speed))
    /\ UNCHANGED <<sensor, initial_heading_, unitVars>>
    /\ MotionFrame

\* climber_->Set(encoder_count, speed)
CallClimberSet ==
    /\ op = "ClimberSet"
    /\ \E encoder_count \in Positions, speed \in Speeds :
         call' = Called("ClimberSet", encoder_count, "", speed, 0,
                        Climber_Set(par, sensor, encoder_count, speed))
    /\ UNCHANGED <<sensor, initial_heading_, unitVars>>
    /\ MotionFrame

\* drive_train_->Drive(directional_length, speed)
CallDrive ==
    /\ op = "Drive"
    /\ \E directional_length \in SignedPositions, speed \in Speeds :
         call' = Called("Drive", directional_length, "", speed, 0,
                        DriveTrain_Drive(par, sensor, directional_length, speed))
    /\ UNCHANGED <<sensor, initial_heading_, unitVars>>
    /\ MotionFrame

\* drive_train_->Turn(heading, speed)
CallTurn ==
    /\ op = "Turn"
    /\ \E heading \in Positions, speed \in Speeds :
         call' = Called("Turn", heading, "", speed, 0,
                        DriveTrain_Turn(par, sensor, heading, speed))
    /\ UNCHANGED <<sensor, initial_heading_, unitVars>>
    /\ MotionFrame

\* drive_train_->AdjustHeading(adjustment, speed)
CallAdjustHeading ==
    /\ op = "AdjustHeading"
    /\ \E adjustment \in SignedPositions, speed \in Speeds :
         \E r \in {DriveTrain_AdjustHeading(par, adjustment_in_progress_,
                                            initial_heading_, sensor, adjustment, speed)} :
            /\ call' = Called("AdjustHeading", adjustment, "", speed, r[2], r[1])
            /\ initial_heading_' = r[2]
            /\ adjustment_in_progress_' = r[3]
    /\ UNCHANGED <<sensor, drive_timer_, pitch_timer_>>
    /\ MotionFrame

\* shooter_->SetPitch(time, direction, speed)
CallSetPitchTime ==
    /\ op = "SetPitchTime"
    /\ \E time \in Positions, direction \in {"kUp", "kDown"}, speed \in Speeds :
         \E r \in {Shooter_SetPitchTime(par, TimerGet(pitch_timer_), sensor, time,
                                        direction, speed)} :
            /\ call' = Called("SetPitchTime", time, direction, speed, 0, r)
            /\ pitch_timer_' = IF r.stop THEN TimerStop(pitch_timer_) ELSE pitch_timer_
    /\ UNCHANGED <<sensor, initial_heading_, adjustment_in_progress_, drive_timer_>>
    /\ MotionFrame

\* climber_->Set(time, direction, speed)
CallClimberSetTime ==
    /\ op = "ClimberSetTime"
    /\ \E time \in Positions, direction \in {"kUp", "kDown"}, speed \in Speeds :
         call' = Called("ClimberSetTime", time, direction, speed, 0,
                        Climber_SetTime(par, ClimberTimerGet, sensor, time,
                                        direction, speed))
    /\ UNCHANGED <<sensor, initial_heading_, unitVars>>
    /\ MotionFrame

\* drive_train_->Drive(time, direction, speed)
CallDriveTime ==
    /\ op = "DriveTime"
    /\ \E time \in Positions, direction \in {"kForward", "kBackward"}, speed \in Speeds :
         \E r \in {DriveTrain_DriveTime(par, TimerGet(drive_timer_), time,
                                        direction, speed)} :
            /\ call' = Called("DriveTime", time, direction, speed, 0, r)
            /\ drive_timer_' = IF r.stop THEN TimerStop(drive_timer_) ELSE drive_timer_
    /\ UNCHANGED <<sensor, initial_heading_, adjustment_in_progress_, pitch_timer_>>
    /\ MotionFrame

\* ReadSensors: the reading the operation steers by has changed
ReadSensors ==
    /\ op \in (PositionOps \cup TimedOps \cup {"AimPitch"}) \ {"DriveTime"}
    /\ \E reading \in Positions \ {sensor} : sensor' = reading
    /\ call' = NoCall
    /\ UNCHANGED <<initial_heading_, unitVars>>
    /\ MotionFrame

\* Shooter::ResetAndStartTimer, DriveTrain::ResetAndStartTimer
ResetAndStartTimer ==
    /\ op \in {"SetPitchTime", "DriveTime"}
    /\ IF op = "SetPitchTime"
       THEN /\ pitch_timer_' = TimerStart(TimerReset(TimerStop(pitch_timer_)))
            /\ drive_timer_' = drive_timer_
       ELSE /\ drive_timer_' = TimerStart(TimerReset(TimerStop(drive_timer_)))
            /\ pitch_timer_' = pitch_timer_
    /\ call' = NoCall
    /\ UNCHANGED <<sensor, initial_heading_, adjustment_in_progress_>>
    /\ MotionFrame

\* time passing between two calls
TimePasses ==
    /\ op \in {"SetPitchTime", "DriveTime"}
    /\ pitch_timer_' = TimerAdvance(pitch_timer_, TickTime)
    /\ drive_timer_' = TimerAdvance(drive_timer_, TickTime)
    /\ <<pitch_timer_', drive_timer_'>> # <<pitch_timer_, drive_timer_>>
    /\ call' = NoCall
    /\ UNCHANGED <<sensor, initial_heading_, adjustment_in_progress_>>
    /\ MotionFrame

\* AimAtTarget kStep3 and kStep4 on a target with that aspect ratio:
\* degrees_off_ = GetVerticalAngleOfTarget(&current_target_), then
\* shooter_->SetPitchAngle(degrees_off_, 1.0)
CallAimPitch ==
    /\ op = "AimPitch"
    /\ \E t \in TargetConfigs, rectangle_ratio \in Positions, elevation \in 1..MaxPos :
         \E degrees_off_ \in {Targeting_GetVerticalAngleOfTarget(t, rectangle_ratio,
                                                                  elevation)} :
            call' = [op |-> "AimPitch",
                     input |-> <<rectangle_ratio, "", 1>>,
                     initial |-> 0,
                     r |-> Shooter_SetPitchAngle(par, sensor, degrees_off_, 1),
                     t |-> t,
                     height |-> Targeting_GetEnumHeightOfTarget(t, rectangle_ratio),
                     degrees_off_ |-> degrees_off_]
    /\ UNCHANGED <<sensor, initial_heading_, unitVars>>
    /\ MotionFrame

\* AutoFindTarget kStep1 and kStep2: GetTargets captures a report, then
\* SelectTarget(height) picks from it
CallSelectTarget ==
    /\ op = "SelectTarget"
    /\ \E targets_report \in Reports, height \in Heights :
         selection' = SelectTargetByHeight(targets_report, height, selection.location)
    /\ UNCHANGED <<robot_state_, progVars, scriptVars, tick, controls, disk,
                   maximum_linear_speed_change_, visionVars, op, par>>
    /\ UNCHANGED <<sensor, initial_heading_, call, unitVars>>

NextMotion ==
    \/ CallSetPitch
    \/ CallSetPitchAngle
    \/ CallClimberSet
    \/ CallDrive
    \/ CallTurn
    \/ CallAdjustHeading
    \/ CallSetPitchTime
    \/ CallClimberSetTime
    \/ CallDriveTime
    \/ ReadSensors
    \/ ResetAndStartTimer
    \/ TimePasses
    \/ CallAimPitch
    \/ CallSelectTarget

\* any operation, under any of the parameter sets
InitMotion ==
    /\ InitRobot /\ controls = ClimbingControls /\ disk = << >>
    /\ maximum_linear_speed_change_ = 0
    /\ InitVision
    /\ op \in PositionOps \cup TimedOps \cup {"AimPitch", "SelectTarget"}
    /\ par \in Configs
    /\ sensor = 0
    /\ initial_heading_ = 0
    /\ call = NoCall
    /\ selection = NoSelection

SpecMotion == InitMotion /\ [][NextMotion]_vars

(***************************************************************************)
(* Properties of the arbitration between routines and manual control.      *)
(***************************************************************************)
\* the routines whose code commands each actuator
Commanders ==
    [a \in Actuators |->
        CASE a = "drive" -> {"AutoFindTarget", "AutoCycleTarget", "AutoClimb"}
          [] a = "pitch" -> {"AutoFindTarget", "AutoCycleTarget", "AutoFeederHeight",
                             "AutoClimbingPrep", "AutoClimb"}
          [] a = "winch" -> {"AutoClimb"}
          [] OTHER -> {"AutoShoot", "AutoRapidFire"}]

\* the actuators AimAtTarget commands on behalf of FindTarget and CycleTarget
AimActuators == {"drive", "pitch"}

\* the manual input for an actuator is non-zero in the control readings in
ManualInput(in, a) ==
    CASE a = "winch" -> "scoring_right_y" \in in
      [] a = "pitch" -> "scoring_left_y" \in in
      [] a = "shooter" -> "LeftTrigger" \in in
      [] a = "piston" -> "scoring_dpad_y" \in in /\ "LeftTrigger" \in in
      [] OTHER -> "driver_left_y" \in in \/ "driver_right_y" \in in

\* the logical sources that commanded actuator a in the last handler run;
\* the manual and the neutral command are the one manual/neutral path
Path(src) == IF src \in {"manual", "neutral"} THEN "manual/neutral" ELSE src

Sources(a) == {Path(tick.cmds[a][i].src) : i \in 1..Len(tick.cmds[a])}

\* C1: at the end of any Teleop tick in which the manual input for an
\* actuator is non-zero, every routine cursor that can command that actuator
\* equals kFinished, the Aim cursor included.
C1_ArbitrationExclusivity ==
    tick.handler = "TeleopPeriodic" =>
        \A a \in Actuators :
            ManualInput(tick.input, a) =>
                /\ \A r \in Commanders[a] : Cursors(Cur)[r] = kFinished
                /\ a \in AimActuators => aim_state_ = kFinished

\* C2: in every Teleop tick each actuator is commanded by at most one
\* logical source, one routine or the manual/neutral path.
C2_OneSourcePerActuator ==
    tick.handler = "TeleopPeriodic" =>
        \A a \in Actuators : Cardinality(Sources(a)) <= 1

\* C3: in every state, for each actuator, at most one of the routine
\* cursors that command it is not kFinished.
C3_OneRoutinePerSubsystem ==
    \A a \in Actuators :
        Cardinality({r \in Commanders[a] : Cursors(Cur)[r] # kFinished}) <= 1

\* C4: when a cursor that was not kFinished after the routine section is
\* kFinished at the end of the Teleop tick (it was cancelled by a manual
\* input or by a trigger), the last command of the tick to every actuator
\* the routine commands comes from the manual/neutral path.
C4_CancelledRoutineNeutralised ==
    tick.handler = "TeleopPeriodic" =>
        \A a \in Actuators : \A r \in Commanders[a] :
            (tick.mid[r] # kFinished /\ Cursors(Cur)[r] = kFinished) =>
                /\ tick.cmds[a] # << >>
                /\ Path(tick.cmds[a][Len(tick.cmds[a])].src) = "manual/neutral"

\* C12: in every Teleop or Disabled tick each motor (drive, winch, pitch,
\* shooter wheel) receives at least one command.
C12_EveryMotorCommanded ==
    tick.handler \in {"TeleopPeriodic", "DisabledPeriodic"} =>
        \A a \in Motors : tick.cmds[a] # << >>

\* C19: a Teleop tick that starts with the AutoClimb cursor at kStep2 and
\* reads a non-zero drive stick ends with AutoClimb at kFinished, and every
\* command the drive train received in the tick is the manual one.
C19_ManualDriveCancelsClimb ==
    [][(/\ robot_state_ = kTeleop /\ robot_state_' = kTeleop
        /\ tick'.handler = "TeleopPeriodic"
        /\ auto_climb_state_ = kStep2
        /\ ManualInput(tick'.input, "drive")) =>
          /\ auto_climb_state_' = kFinished
          /\ tick'.cmds["drive"] # << >>
          /\ \A i \in 1..Len(tick'.cmds["drive"]) :
                tick'.cmds["drive"][i].src = "manual"]_vars

\* the control thread's record as the controls section of the last Teleop
\* tick found it: the cursors the routine section left
AfterRoutines ==
    [Cur EXCEPT !.auto_shoot_state_ = tick.mid["AutoShoot"],
                !.auto_rapid_fire_state_ = tick.mid["AutoRapidFire"],
                !.aim_state_ = tick.mid["AimAtTarget"],
                !.auto_find_target_state_ = tick.mid["AutoFindTarget"],
                !.auto_cycle_target_state_ = tick.mid["AutoCycleTarget"],
                !.auto_feeder_height_state_ = tick.mid["AutoFeederHeight"],
                !.auto_climbing_prep_state_ = tick.mid["AutoClimbingPrep"],
                !.auto_climb_state_ = tick.mid["AutoClimb"]]

\* the cursors as the manual block of actuator a read them in the last
\* Teleop tick: after the trigger section and the blocks before its own
CursorsAtBlock(a) ==
    CASE a = "winch" -> Cursors(TriggerSection(AfterRoutines, tick.input))
      [] a = "pitch" ->
            Cursors(ManualWinch(TriggerSection(AfterRoutines, tick.input), tick.input))
      [] a = "shooter" ->
            Cursors(ManualPitch(ManualWinch(TriggerSection(AfterRoutines, tick.input),
                                            tick.input), tick.input))
      [] a = "piston" ->
            Cursors(ManualShooter(
                        ManualPitch(ManualWinch(TriggerSection(AfterRoutines, tick.input),
                                                tick.input), tick.input), tick.input))
      [] OTHER ->
            Cursors(ManualFeeder(
                        ManualShooter(
                            ManualPitch(ManualWinch(TriggerSection(AfterRoutines, tick.input),
                                                    tick.input), tick.input), tick.input),
                        tick.input))

\* the last command actuator a received in the tick is the neutral one
\* (speed 0; SetPiston(false) is recorded as 0)
NeutralLast(a) ==
    /\ tick.cmds[a] # << >>
    /\ tick.cmds[a][Len(tick.cmds[a])].src = "neutral"
    /\ tick.cmds[a][Len(tick.cmds[a])].val = 0

\* C21: in every Teleop tick, an actuator whose manual input is zero and
\* whose commanding routines are all at kFinished when its manual block is
\* reached is commanded to neutral: zero for drive, winch, pitch and shooter
\* wheel, retracted for the feed piston.
C21_IdleSubsystemNeutral ==
    tick.handler = "TeleopPeriodic" =>
        \A a \in Actuators :
            (/\ ~ManualInput(tick.input, a)
             /\ \A r \in Commanders[a] : CursorsAtBlock(a)[r] = kFinished) =>
                NeutralLast(a)

\* a Teleop tick with no control touched and no routine active: all five
\* actuators end the tick on the neutral command
C21_Witness ==
    /\ tick.handler = "TeleopPeriodic"
    /\ tick.input = {}
    /\ \A r \in Routines : tick.mid[r] = kFinished
    /\ \A a \in Actuators : NeutralLast(a)

\* the commands routine r sent to actuator a in the last handler run
SentBy(r, a) ==
    {tick.cmds[a][i].val : i \in {n \in 1..Len(tick.cmds[a]) : tick.cmds[a][n].src = r}}

\* what AutoClimb's two motions reported in the last tick: a SetPitch call
\* that returns true sends zero or nothing, one that returns false a speed;
\* Climber::Set sends zero exactly when it returns true
ClimbPitchReported == \A v \in SentBy("AutoClimb", "pitch") : v = 0

ClimbWinchReported == 0 \in SentBy("AutoClimb", "winch")

\* C22: AutoClimb enters its parallel step with both completion flags
\* cleared, sets a flag only in a tick in which that motion reports
\* completion, and goes from kStep2 to kStep3 -- and nowhere else -- only
\* when both flags are set, in whatever order and ticks they were set.
C22_ParallelStepJoin ==
    [][tick'.handler = "TeleopPeriodic" =>
        /\ (auto_climb_state_ = kStep1 /\ tick'.mid["AutoClimb"] = kStep2) =>
              (~auto_climb_pitch_finished_' /\ ~auto_climb_winch_finished_')
        /\ (auto_climb_state_ \notin {kStep1, kStep2}) => tick'.mid["AutoClimb"] # kStep2
        /\ auto_climb_state_ = kStep2 =>
              /\ auto_climb_pitch_finished_' =
                    (auto_climb_pitch_finished_ \/ ClimbPitchReported')
              /\ auto_climb_winch_finished_' =
                    (auto_climb_winch_finished_ \/ ClimbWinchReported')
              /\ tick'.mid["AutoClimb"] \in {kStep2, kStep3}
              /\ tick'.mid["AutoClimb"] = kStep3 =>
                    (auto_climb_pitch_finished_' /\ auto_climb_winch_finished_')]_vars

\* the parallel step left in a tick in which the pitch reported completion
\* and the winch was not called any more: the winch had finished in an
\* earlier tick
C22_Witness ==
    /\ tick.handler = "TeleopPeriodic"
    /\ tick.mid["AutoClimb"] = kStep3
    /\ SentBy("AutoClimb", "pitch") = {0}
    /\ SentBy("AutoClimb", "winch") = {}
    /\ auto_climb_pitch_finished_ /\ auto_climb_winch_finished_

\* C23: in a Teleop tick that AutoClimb runs in and ends short of kFinished
\* every value it sends to the drive train is the configured backup speed,
\* and in the tick in which it finishes the last value it sends to the
\* drive train is zero.
C23_ClimbCreepsThenStops ==
    [][(tick'.handler = "TeleopPeriodic" /\ auto_climb_state_ # kFinished) =>
        /\ SentBy("AutoClimb", "drive")' # {}
        /\ tick'.mid["AutoClimb"] # kFinished =>
              SentBy("AutoClimb", "drive")' = {auto_climb_backup_speed_}
        /\ tick'.mid["AutoClimb"] = kFinished =>
              \E n \in 1..Len(tick'.cmds["drive"]) :
                 /\ tick'.cmds["drive"][n].src = "AutoClimb"
                 /\ tick'.cmds["drive"][n].val = 0
                 /\ \A m \in (n + 1)..Len(tick'.cmds["drive"]) :
                       tick'.cmds["drive"][m].src # "AutoClimb"]_vars

\* the values an Aim run sent to actuator a in the last handler run; Aim
\* runs on behalf of AutoFindTarget or of the cycle-target block
AimSent(a) == SentBy("AutoFindTarget", a) \cup SentBy("AutoCycleTarget", a)

\* the order of the two motions within an Aim run: the cursor reaches kStep3
\* only from the heading steps, in a tick in which AdjustHeading sent zero
\* (it returned true), and a pitch command is sent only from kStep3 or
\* kStep4, reached in an earlier tick
AimHeadingFirst ==
    /\ (aim_state_' = kStep3 /\ aim_state_ # kStep3) =>
          (aim_state_ \in {kStep1, kStep2} /\ 0 \in AimSent("drive")')
    /\ (tick' # tick /\ AimSent("pitch")' # {}) => aim_state_ \in {kStep3, kStep4}

\* the Aim cursor goes to kFinished from the pitch steps, in a tick in which
\* SetPitchAngle returned true (it sent zero or, on a travel bound, nothing)
AimFinishedByPitch ==
    (aim_state_ # kFinished /\ aim_state_' = kFinished) =>
        /\ aim_state_ \in {kStep3, kStep4}
        /\ \A v \in AimSent("pitch")' : v = 0

\* C24 as stated: within one Aim run no pitch-angle command is issued
\* before the heading adjustment has reported completion, and Aim becomes
\* Finished only in a tick in which the pitch-angle motion reports
\* completion after the heading adjustment has.
C24_AimSequence == [][AimHeadingFirst /\ AimFinishedByPitch]_vars

\* C24 amended: the same for an Aim run on a selected target; with no
\* target selected (current_target_ empty) Aim finishes at its first call
\* without any motion.
C24_AimSequenceOnTarget ==
    [][/\ AimHeadingFirst
       /\ current_target_ # 0 => AimFinishedByPitch
       /\ (current_target_ = 0 /\ aim_state_ # kFinished /\ aim_state_' = kFinished) =>
              (AimSent("drive")' = {} /\ AimSent("pitch")' = {})]_vars

\* an Aim run on a selected target has just finished on the pitch reaching
\* its angle
C24_Witness ==
    /\ aim_state_ = kFinished
    /\ current_target_ # 0
    /\ tick.mid["AimAtTarget"] = kFinished
    /\ AimSent("pitch") = {0}
    /\ AimSent("drive") = {}

\* C26: a Teleop tick that runs the first step of the cycle-target block on
\* a captured report of n >= 1 entries moves current_target_vector_location_
\* from i to (i + 1) mod n, leaves the index inside the report, and makes
\* the entry at the new index the target Aim then runs on.
C26_CycleTargetAdvances ==
    [][(/\ tick'.handler = "TeleopPeriodic"
        /\ auto_cycle_target_state_ = kStep1
        /\ auto_find_target_state_ = kFinished
        /\ targets_report_ >= 1) =>
          /\ current_target_vector_location_' =
                (current_target_vector_location_ + 1) % targets_report_
          /\ current_target_vector_location_' < targets_report_
          /\ current_target_' = current_target_vector_location_' + 1
          /\ tick'.mid["AutoCycleTarget"] = kStep2
          /\ tick'.mid["AimAtTarget"] = kStep1]_vars

\* the handler run of this step calls AutoShoot: the Teleop routine block
\* with the cursor short of kFinished, or the script's "shoot" command
AutoShootRuns ==
    \/ tick'.handler = "TeleopPeriodic" /\ auto_shoot_state_ # kFinished
    \/ tick'.handler = "AutonomousPeriodic" /\ "shoot" \in tick'.calls

\* the cursor that call starts from (the script resets it when it first
\* dispatches the command), the power it is given, and the reading of the
\* shot timer it takes
ShootEntry ==
    IF tick'.handler = "AutonomousPeriodic" /\ ~current_command_in_progress_
    THEN kStep1
    ELSE auto_shoot_state_

ShootPower ==
    IF tick'.handler = "AutonomousPeriodic" THEN current_command_.param1 ELSE 100

ShootElapsed == TimerGet(TimerAdvance(auto_shoot_timer_, TickTime))

\* the last value AutoShoot sent to the shooter wheel in this step is zero
ShootStopsLast ==
    \E n \in 1..Len(tick'.cmds["shooter"]) :
       /\ tick'.cmds["shooter"][n].src = "AutoShoot"
       /\ tick'.cmds["shooter"][n].val = 0
       /\ \A m \in (n + 1)..Len(tick'.cmds["shooter"]) :
             tick'.cmds["shooter"][m].src # "AutoShoot"

\* C27: over the ticks in which AutoShoot runs: every such tick commands
\* the wheel at the given power; the piston is extended only from the
\* spin-up wait with at least the spin-up time on the shot timer, and while
\* the run waits there the timer counts only handler runs in which
\* AutoShoot commands the wheel at power; the piston is retracted only from
\* the spin-down wait with at least the spin-down time on the timer, in the
\* same tick the wheel is commanded to zero and the cursor becomes
\* kFinished, and the wheel is zeroed and the run finished in no other way.
C27_ShootSequence ==
    [][/\ (/\ auto_shoot_state_ = kStep2 /\ auto_shoot_state_' = kStep2
            /\ TimerGet(auto_shoot_timer_') > TimerGet(auto_shoot_timer_)) =>
              SentBy("AutoShoot", "shooter")' \ {0} # {}
       /\ AutoShootRuns =>
        /\ ShootPower \in SentBy("AutoShoot", "shooter")'
        /\ SentBy("AutoShoot", "shooter")' \subseteq {ShootPower, 0}
        /\ 1 \in SentBy("AutoShoot", "piston")' =>
              /\ ShootEntry = kStep2
              /\ auto_shoot_timer_.running
              /\ ShootElapsed >= auto_shooter_spinup_time_
              /\ SentBy("AutoShoot", "piston")' = {1}
              /\ tick'.mid["AutoShoot"] = kStep4
        /\ (ShootEntry = kStep4 /\ tick'.mid["AutoShoot"] = kStep4) =>
              /\ SentBy("AutoShoot", "piston")' = {}
              /\ SentBy("AutoShoot", "shooter")' = {ShootPower}
        /\ 0 \in SentBy("AutoShoot", "piston")' =>
              /\ ShootEntry = kStep4
              /\ auto_shoot_timer_.running
              /\ ShootElapsed >= auto_shooter_spindown_time_
              /\ ShootStopsLast
              /\ tick'.mid["AutoShoot"] = kFinished
        /\ 0 \in SentBy("AutoShoot", "shooter")' => 0 \in SentBy("AutoShoot", "piston")'
        /\ tick'.mid["AutoShoot"] = kFinished => 0 \in SentBy("AutoShoot", "piston")'
        /\ tick'.mid["AutoShoot"] \in {kStep2, kStep4, kFinished}
      ]_vars

\* the handler run of this step calls AutoRapidFire, the cursor the call
\* starts from, and the steps of the given kind it leaves in this tick
RapidFireRuns ==
    \/ tick'.handler = "TeleopPeriodic" /\ auto_rapid_fire_state_ # kFinished
    \/ tick'.handler = "AutonomousPeriodic" /\ "rapidfire" \in tick'.calls

RapidEntry ==
    IF tick'.handler = "AutonomousPeriodic" /\ ~current_command_in_progress_
    THEN kStep1
    ELSE auto_rapid_fire_state_

RapidCrossed(steps) ==
    {k \in steps : RapidEntry <= k /\ k < tick'.mid["AutoRapidFire"]}

\* the last value AutoRapidFire sent to the shooter wheel in this step is zero
RapidStopsLast ==
    \E n \in 1..Len(tick'.cmds["shooter"]) :
       /\ tick'.cmds["shooter"][n].src = "AutoRapidFire"
       /\ tick'.cmds["shooter"][n].val = 0
       /\ \A m \in (n + 1)..Len(tick'.cmds["shooter"]) :
             tick'.cmds["shooter"][m].src # "AutoRapidFire"

ClimbReads(s) ==
    <<s.auto_climb_state_, s.auto_climb_pitch_finished_,
      s.auto_climb_winch_finished_, ClimberTimerGet>>

\* AutoClimb waits for the timed winch motion alone
WinchWait ==
    /\ robot_state_ = kTeleop
    /\ auto_climb_state_ = kStep2
    /\ auto_climb_pitch_finished_
    /\ ~auto_climb_winch_finished_

\* C31: the wait of AutoClimb for its timed winch motion comes to an end:
\* in a Teleop state in which the pitch motion of the parallel step has
\* finished and the winch motion has not, a tick in which no control is
\* touched and the winch is short of its travel bound either completes the
\* winch motion or changes what the next call reads (the time on the
\* climber's timer), so that the state is not one the run stays in for ever.
C31_WinchTimeElapses ==
    WinchWait =>
        \A env \in TeleopEnvs(Cur) :
            env.winch = "free" =>
                ClimbReads(TeleopBody(Elapse(Cur, TickTime), {}, env).state)
                    # ClimbReads(Cur)

(***************************************************************************)
(* Properties of the script interpreter.                                   *)
(***************************************************************************)

\* C9: on every autonomous tick that starts with the command "end" or
\* "invalid", or with no script selected, every motor is commanded and
\* every value sent to it is zero.
C9_EndCommandsNeutral ==
    (tick.handler = "AutonomousPeriodic" /\ tick.finished) =>
        \A a \in Motors :
            /\ tick.cmds[a] # << >>
            /\ \A i \in 1..Len(tick.cmds[a]) : tick.cmds[a][i].val = 0

\* C10: an autonomous tick that starts with the command "end" or "invalid"
\* leaves the command and the command cursor as they are, dispatches
\* nothing and only issues neutral commands; and a GetNextCommand past the
\* last command of the script returns "end".
C10_EndHaltsScript ==
    [][(robot_state_ = kAutonomous /\ robot_state_' = kAutonomous) =>
          /\ current_command_.command \in {"end", "invalid"} =>
                /\ command_iterator' = command_iterator
                /\ current_command_' = current_command_
                /\ tick'.calls = {}
                /\ tick'.finished
                /\ \A a \in Actuators : \A i \in 1..Len(tick'.cmds[a]) :
                        tick'.cmds[a][i].src = "neutral"
          /\ ("GetNextCommand" \in tick'.calls
                 /\ command_iterator > Len(autoscript_commands)) =>
                current_command_'.command = "end"]_vars

\* the script halted on an "end" token with commands still behind it
C10_Witness ==
    /\ robot_state_ = kAutonomous
    /\ tick.handler = "AutonomousPeriodic"
    /\ tick.finished
    /\ current_command_.command = "end"
    /\ command_iterator <= Len(autoscript_commands)

\* the number of numeric parameters each recognized command requires
RequiredParams ==
    [c \in {"wait", "adjustheading", "drivedistance", "drivetime", "turnheading",
            "turntime", "pitchposition", "pitchtime", "pitchangle", "shoot",
            "rapidfire", "findtarget"} |->
        CASE c \in {"drivetime", "turntime", "pitchtime"} -> 3
          [] c \in {"adjustheading", "drivedistance", "turnheading", "pitchposition",
                    "pitchangle"} -> 2
          [] c = "rapidfire" -> 0
          [] OTHER -> 1]

\* command c is a no-op: its name is not recognized, or one of the
\* parameters it requires is unset
NoOp(c) ==
    \/ c.command \notin DOMAIN RequiredParams
    \/ /\ c.command \in DOMAIN RequiredParams
       /\ \/ RequiredParams[c.command] >= 1 /\ c.param1 = Unset
          \/ RequiredParams[c.command] >= 2 /\ c.param2 = Unset
          \/ RequiredParams[c.command] >= 3 /\ c.param3 = Unset

\* C11: an autonomous tick that meets a command other than "end" and
\* "invalid" whose name is not recognized, or that lacks a required
\* parameter, calls no subsystem operation and no routine, commands
\* nothing, and leaves the script on its next command, not halted.
C11_NoOpCommandSkipped ==
    [][(/\ robot_state_ = kAutonomous /\ robot_state_' = kAutonomous
        /\ autoscript_file_name_ # 0
        /\ current_command_.command \notin {"end", "invalid"}
        /\ NoOp(current_command_)) =>
          /\ tick'.calls = {"GetNextCommand"}
          /\ \A a \in Actuators : tick'.cmds[a] = << >>
          /\ ~tick'.finished
          /\ current_command_' =
                IF command_iterator <= Len(autoscript_commands)
                THEN autoscript_commands[command_iterator]
                ELSE autoscript_command(<<"end">>)
          /\ command_iterator' =
                IF command_iterator <= Len(autoscript_commands)
                THEN command_iterator + 1
                ELSE command_iterator]_vars

\* the tick that met "drivetime 2" (two parameters missing), in the script
\* that also holds the unrecognized "bogus", has just moved on
C11_Witness ==
    /\ robot_state_ = kAutonomous
    /\ tick.handler = "AutonomousPeriodic"
    /\ autoscript_file_name_ = 5
    /\ tick.calls = {"GetNextCommand"}
    /\ \A a \in Actuators : tick.cmds[a] = << >>
    /\ command_iterator = 5
    /\ current_command_.command = "end"

\* the script of scenario D: wait 2, drivedistance 5 0.5, end
ScenarioD == << <<"wait", 2>>, <<"drivedistance", 5, 5>>, <<"end">> >>

\* C20: while the script of scenario D is on "wait 2", a tick at which
\* less than 2 s have passed since the command's first tick leaves the
\* script on "wait", and a tick at which 2 s or more have passed (exactly
\* 2 s included) moves it to "drivedistance".
C20_WaitElapses ==
    [][(/\ robot_state_ = kAutonomous /\ robot_state_' = kAutonomous
        /\ autoscript_file_name_ # 0
        /\ ScriptDir[autoscript_file_name_] = ScenarioD
        /\ current_command_.command = "wait") =>
          LET elapsed == IF current_command_in_progress_
                         THEN TimerGet(timer_) + TickTime
                         ELSE 0
          IN  IF elapsed >= current_command_.param1
              THEN current_command_'.command = "drivedistance"
              ELSE current_command_' = current_command_]_vars

(***************************************************************************)
(* Properties of the snapshot hand-off.                                    *)
(***************************************************************************)
Sorted(v) ==
    \A i \in 1..(Len(v) - 1) : v[i].center_mass_y <= v[i + 1].center_mass_y

\* C5: a report the reader copies out is the report of the worker's latest
\* publication, and the worker is not inside its critical region while
\* the copy is made.
C5_SnapshotAtomicity ==
    [][(reader_pc = "copying" /\ reader_pc' = "idle" /\ report'.ok) =>
          /\ ~published.null
          /\ report'.targets = published.targets
          /\ worker_pc \notin InRegion]_vars

\* the reader copies a report while the worker is pended on the mutex
C5_Witness ==
    /\ reader_pc = "copying"
    /\ worker_pc = "pending"
    /\ ~particle_report_.null
    /\ Len(particle_report_.targets) = MaxTargets
    /\ published = particle_report_

\* C6: every report a reader obtains is in ascending order of
\* center_mass_y.
C6_SortedSnapshots == report.ok => Sorted(report.targets)

\* C7: a snapshot read that has begun always returns.
C7_ReadReturns == (reader_pc # "idle") ~> (reader_pc = "idle")

\* the reader is pended on the mutex the restarted worker owns
C7_Witness ==
    /\ reader_pc = "pending"
    /\ worker_pc \in InRegion
    /\ find_targets_task_
    /\ tick.handler \in {"TeleopInit", "AutonomousInit"}

\* C8: after a fault the worker is at the top of its loop again, and once
\* a cycle has published a report every read returns the report of the
\* last successful cycle.
C8_FaultKeepsSnapshot ==
    [][/\ (worker_pc = "deleted" /\ worker_pc' \notin InRegion) =>
              (worker_pc' = "idle" /\ find_targets_task_')
       /\ (reader_pc = "copying" /\ reader_pc' = "idle" /\ ~published.null) =>
              (report'.ok /\ report'.targets = published.targets)]_vars

\* C29: an autonomous tick fetches the next command exactly when the
\* current command was marked complete in it; the current command then
\* becomes the one that follows it in the script (the end marker after the
\* last one), the iterator moving on by one, and that command is not
\* dispatched in the same tick: only the old command's operation was
\* called and the new command is not yet in progress.  Otherwise command
\* and iterator stay as they are.
C29_CursorAdvance ==
    [][tick'.handler = "AutonomousPeriodic" =>
        /\ "GetNextCommand" \in tick'.calls <=> current_command_complete_'
        /\ current_command_complete_' =>
              /\ current_command_' =
                    IF command_iterator <= Len(autoscript_commands)
                    THEN autoscript_commands[command_iterator]
                    ELSE autoscript_command(<<"end">>)
              /\ command_iterator' =
                    IF command_iterator <= Len(autoscript_commands)
                    THEN command_iterator + 1
                    ELSE command_iterator
              /\ ~current_command_in_progress_'
              /\ tick'.calls \ {"GetNextCommand"} \subseteq {current_command_.command}
        /\ ~current_command_complete_' =>
              /\ current_command_' = current_command_
              /\ command_iterator' = command_iterator]_vars

\* the tick in which a "shoot" command that ran over several ticks reports
\* completion and the command after it becomes the current one
C29_Witness ==
    /\ tick.handler = "AutonomousPeriodic"
    /\ current_command_complete_
    /\ tick.calls = {"shoot", "GetNextCommand"}
    /\ tick.mid["AutoShoot"] = kFinished
    /\ current_command_.command = "end"
    /\ command_iterator = 3
    /\ ~current_command_in_progress_

\* the climber commands of the script language, which the interpreter of
\* the earlier revisions dispatched to Climber::Set
ClimbCommands == {"climberposition", "climbertime"}

\* the commands that stand for a subsystem operation, with the number of
\* parameters each requires
DocumentedParams ==
    [c \in (DOMAIN RequiredParams \ {"wait"}) \cup ClimbCommands |->
        CASE c = "climberposition" -> 2
          [] c = "climbertime" -> 3
          [] OTHER -> RequiredParams[c]]

\* this step is an autonomous tick on a command of that set with all its
\* required parameters set
DocumentedCommandTick ==
    /\ tick'.handler = "AutonomousPeriodic"
    /\ autoscript_file_name_ # 0
    /\ current_command_.command \in DOMAIN DocumentedParams
    /\ DocumentedParams[current_command_.command] >= 1 => current_command_.param1 # Unset
    /\ DocumentedParams[current_command_.command] >= 2 => current_command_.param2 # Unset
    /\ DocumentedParams[current_command_.command] >= 3 => current_command_.param3 # Unset

\* the routine cursor a routine command completes on
RoutineOf(c) ==
    CASE c = "shoot" -> "AutoShoot"
      [] c = "rapidfire" -> "AutoRapidFire"
      [] OTHER -> "AutoFindTarget"

\* the tick called the operation of the current command and nothing else,
\* a routine command is complete exactly when its routine finished, and a
\* command that is not complete stays the current command
CommandDispatched ==
    /\ current_command_.command \in tick'.calls
    /\ tick'.calls \subseteq {current_command_.command, "GetNextCommand"}
    /\ current_command_.command \in {"shoot", "rapidfire", "findtarget"} =>
          (current_command_complete_' <=>
              tick'.mid[RoutineOf(current_command_.command)] = kFinished)
    /\ ~current_command_complete_' => current_command_' = current_command_

\* C30 as stated: every command of the documented set, the two climber
\* commands included, with its parameters set is dispatched to its
\* operation in every tick until the operation reports completion.
C30_DocumentedDispatch == [][DocumentedCommandTick => CommandDispatched]_vars

\* C30: every command of the documented set other than the two climber
\* commands is dispatched so; a climber command is treated as any
\* unrecognized name: it is marked complete at once, no operation is
\* called and nothing is commanded.
C30_ImplementedDispatch ==
    [][DocumentedCommandTick =>
        IF current_command_.command \in ClimbCommands
        THEN /\ tick'.calls = {"GetNextCommand"}
             /\ \A a \in Actuators : tick'.cmds[a] = << >>
             /\ current_command_complete_'
        ELSE CommandDispatched]_vars

\* the tick in which "drivedistance" reports completion and the script
\* moves on to the climber command that follows it
C30_Witness ==
    /\ tick.handler = "AutonomousPeriodic"
    /\ tick.calls = {"drivedistance", "GetNextCommand"}
    /\ current_command_complete_
    /\ current_command_.command = "climberposition"

(***************************************************************************)
(* Properties of the target selection.                                     *)
(***************************************************************************)
\* the entries of the last captured report whose height is the one asked for
Matching == {i \in 1..Len(selection.report) : selection.report[i] = selection.height}

\* C25: from a captured report that is not empty SelectTarget(height)
\* selects the first entry of the requested height; when there is none, the
\* first entry for height kLow and the last entry otherwise; the selected
\* index lies inside the report.  From an empty report nothing is selected.
C25_SelectTarget ==
    selection.asked =>
        /\ Len(selection.report) = 0 => selection.target = 0
        /\ Len(selection.report) > 0 =>
              /\ selection.target \in 1..Len(selection.report)
              /\ selection.location = selection.target - 1
              /\ Matching # {} =>
                    (selection.target \in Matching
                        /\ \A j \in Matching : selection.target <= j)
              /\ (Matching = {} /\ selection.height = kLow) => selection.target = 1
              /\ (Matching = {} /\ selection.height # kLow) =>
                    selection.target = Len(selection.report)

\* a full report without a high target, a high target asked for: the last
\* entry is selected
C25_Witness ==
    /\ selection.asked
    /\ Len(selection.report) = MaxTargets
    /\ selection.height = kHigh
    /\ Matching = {}
    /\ selection.target = MaxTargets /\ selection.location = MaxTargets - 1

FloorOfHalf(n) ==
    CHOOSE k \in -(Abs(n) + 1) .. (Abs(n) + 1) : 2 * k <= n /\ n < 2 * k + 2

\* the encoder count the last call was heading for
TargetCount ==
    IF call.op = "SetPitchAngle"
    THEN FloorOfHalf(par.angle_linear_fit_gradient_ * call.input[1])
             + par.angle_linear_fit_constant_
    ELSE call.input[1]

\* the error the last call faced: target minus reading, for a drive the
\* distance left
ErrorOfCall ==
    CASE call.op = "Drive" -> Abs(call.input[1]) - Abs(sensor)
      [] call.op = "AdjustHeading" -> (call.initial + call.input[1]) - sensor
      [] OTHER -> TargetCount - sensor

\* the last call steered by a sensor, with the sensor and the motor present
SteeredCall ==
    call.op \in PositionOps /\ par.sensor_enabled_ /\ par.motor_enabled_

\* the last call was sent past an enabled travel bound it is already beyond
BoundCrossed ==
    /\ call.op \in {"SetPitch", "SetPitchAngle", "ClimberSet"}
    /\ \/ par.max_limit_ > 0 /\ TargetCount > sensor /\ sensor > par.max_limit_
       \/ par.min_limit_ > 0 /\ TargetCount < sensor /\ sensor < par.min_limit_

\* C13: a position call (pitch position, pitch angle, winch position) made
\* beyond an enabled travel bound, towards a target further out, returns
\* reached = true and sends zero to the motor.
C13_BoundAbortStops ==
    (SteeredCall /\ BoundCrossed) =>
        (call.r.reached /\ call.r.sent /\ call.r.val = 0)

\* the part the operation of the last call needs is marked disabled
PartMissing ==
    \/ ~par.motor_enabled_
    \/ call.op \in PositionOps /\ ~par.sensor_enabled_

\* C14: a motion call whose sensor or motor is marked disabled returns
\* reached = true and sends nothing to the motor, so that its caller is
\* complete at the first call.
C14_DisabledCompletes ==
    (call.op # "none" /\ PartMissing) =>
        (call.r.reached /\ ~call.r.sent /\ ~call.r.stop)

\* a heading adjustment asked of a drive train whose gyro is disabled, with
\* the full adjustment still to turn
C14_Witness ==
    /\ call.op = "AdjustHeading"
    /\ ~par.sensor_enabled_ /\ par.motor_enabled_
    /\ call.input[1] = MaxPos
    /\ call.r.reached
    /\ ~adjustment_in_progress_

\* C15: when a motion call has returned reached = true and the next call
\* has the same arguments and meets the same readings, that call returns
\* reached = true too and sends zero.
C15_CompletionIdempotent ==
    [][(/\ call.op # "none" /\ call.r.reached
        /\ call'.op = call.op /\ call'.input = call.input
        /\ sensor' = sensor
        /\ TimerGet(pitch_timer_') = TimerGet(pitch_timer_)
        /\ TimerGet(drive_timer_') = TimerGet(drive_timer_)) =>
          (call'.r.reached /\ call'.r.sent /\ call'.r.val = 0)]_vars

\* C16: of two calls of one position operation under one parameter set and
\* at one speed, whose errors have the same sign, the call with the larger
\* error sends a value at least as large in magnitude.
C16_TierMonotone ==
    [][(/\ call.op \in PositionOps /\ call'.op = call.op
        /\ call.r.sent /\ call'.r.sent
        /\ call'.input[3] = call.input[3]
        /\ ErrorOfCall * ErrorOfCall' > 0
        /\ Abs(ErrorOfCall) < Abs(ErrorOfCall')) =>
          Abs(call.r.val) <= Abs(call'.r.val)]_vars

\* C17: a position call whose error is within the completion threshold,
\* the threshold itself included, sends zero and returns reached = true.
C17_WithinThresholdStops ==
    (SteeredCall /\ Abs(ErrorOfCall) <= par.threshold_) =>
        (call.r.reached /\ call.r.sent /\ call.r.val = 0)

\* the ratio the claim names for an error of magnitude m
NamedRatio(m) ==
    CASE m > par.far_threshold_ -> par.far_ratio_
      [] m <= par.far_threshold_ /\ m > par.medium_threshold_ -> par.medium_ratio_
      [] OTHER -> par.near_ratio_

\* the sign of the direction of travel: of the length for a drive, of the
\* error otherwise
NamedSign ==
    IF call.op = "Drive"
    THEN IF call.input[1] > 0 THEN 1 ELSE -1
    ELSE IF ErrorOfCall > 0 THEN 1 ELSE -1

\* C18: a position call that is not complete returns reached = false and
\* sends sign x speed x ratio, the ratio being the far one above the far
\* breakpoint, else the medium one above the medium breakpoint, else the
\* near one.
C18_TierSelection ==
    /\ (SteeredCall /\ ~BoundCrossed /\ ErrorOfCall # 0
            /\ (IF call.op = "Drive" THEN ErrorOfCall ELSE Abs(ErrorOfCall))
                    > par.threshold_) =>
          ~call.r.reached
    /\ (call.op \in PositionOps /\ ~call.r.reached) =>
          /\ call.r.sent
          /\ call.r.val = NamedSign * call.input[3]
                             * NamedRatio(IF call.op = "Drive" THEN ErrorOfCall
                                                              ELSE Abs(ErrorOfCall))

\* scenario A: from reading 0 to the farthest target, beyond the far
\* breakpoint, under ratios that differ by tier
C18_Witness ==
    /\ call.op = "SetPitch"
    /\ sensor = 0 /\ call.input[1] = MaxPos
    /\ par.far_threshold_ < MaxPos
    /\ par.far_ratio_ # par.medium_ratio_ /\ par.far_ratio_ # par.near_ratio_
    /\ ~call.r.reached
    /\ call.r.val = call.input[3] * par.far_ratio_

\* C35: a SetPitchAngle call returns the reached flag and sends the motor
\* command that SetPitch returns and sends for the encoder count
\* floor(gradient x angle + constant), at the same reading and speed.
C35_AngleAsSetpoint ==
    call.op = "SetPitchAngle" =>
        call.r = Shooter_SetPitch(par, sensor, TargetCount, call.input[3])

\* an angle whose count has a fraction to drop, and a motor command that
\* depends on where the count lies
C35_Witness ==
    /\ call.op = "SetPitchAngle"
    /\ (par.angle_linear_fit_gradient_ * call.input[1]) % 2 = 1
    /\ call.r.sent /\ ~call.r.reached /\ call.r.val # 0
    /\ Shooter_SetPitch(par, sensor, TargetCount + 1, call.input[3]) # call.r

\* C40: when a Drive call has completed a distance that is not within the
\* threshold of zero, the first call of a following command of the same
\* distance and speed, made at the reading the completed command left, does
\* not report completion: the new command has its own distance to drive.
C40_DistancePerCommand ==
    (/\ call.op = "Drive" /\ ~Unavailable(par)
     /\ call.r.reached
     /\ Abs(call.input[1]) >= par.threshold_) =>
        ~DriveTrain_Drive(par, sensor, call.input[1], call.input[3]).reached

(***************************************************************************)
(* Properties of the mode entries.                                         *)
(***************************************************************************)
\* C36: a step that changes the mode leaves every subsystem and the vision
\* pipeline with the new mode, motor safety enabled on every motor exactly
\* when the new mode is Disabled or Teleop, and the vision worker started
\* exactly when the new mode is Autonomous or Teleop.
C36_ModeEntry ==
    [][robot_state_' # robot_state_ =>
          /\ \A u \in Subsystems : subsystem_state_'[u] = robot_state_'
          /\ \A m \in Motors :
                safety_enabled_'[m] <=> robot_state_' \in {kDisabled, kTeleop}
          /\ find_targets_task_' <=> robot_state_' \in {kAutonomous, kTeleop}]_vars

\* Autonomous entered while the worker of the previous mode was at work
C36_Witness ==
    /\ robot_state_ = kAutonomous /\ tick.handler = "AutonomousInit"
    /\ \A m \in Motors : ~safety_enabled_[m]
    /\ find_targets_task_ /\ worker_pc = "idle"
    /\ ~published.null

\* C37: when TeleopInit or AutonomousInit has run, every routine cursor is
\* Finished, whatever the previous mode left running.
C37_EntryFinishesRoutines ==
    tick.handler \in {"TeleopInit", "AutonomousInit"} =>
        \A r \in DOMAIN Cursors(Cur) : Cursors(Cur)[r] = kFinished

\* the handler run of this step calls AutoFindTarget at the step the cursor
\* is on: the Teleop routine block, or the script's findtarget command once
\* it is in progress
FindTargetContinues ==
    \/ tick'.handler = "TeleopPeriodic" /\ auto_find_target_state_ # kFinished
    \/ /\ tick'.handler = "AutonomousPeriodic" /\ "findtarget" \in tick'.calls
       /\ current_command_in_progress_ /\ auto_find_target_state_ # kFinished

\* C38: a capture that finds no snapshot (nothing copied out, or an empty
\* report) leaves FindTarget with an empty report and no selected target;
\* from there the selection step selects nothing, and the aiming step ends
\* the routine; no call of FindTarget on the way sends a drive or a pitch
\* command.
C38_NoSnapshotNoAim ==
    [][/\ (tick' # tick /\ tick'.captured \cap {NoReport, 0} # {}) =>
             /\ targets_report_' = 0 /\ current_target_' = 0
             /\ tick'.mid["AutoFindTarget"] = kStep2
             /\ SentBy("AutoFindTarget", "drive")' = {}
             /\ SentBy("AutoFindTarget", "pitch")' = {}
       /\ (FindTargetContinues /\ targets_report_ = 0 /\ current_target_ = 0) =>
             /\ current_target_' = 0
             /\ auto_find_target_state_ = kStep2 => tick'.mid["AutoFindTarget"] = kStep3
             /\ auto_find_target_state_ = kStep3 =>
                   tick'.mid["AutoFindTarget"] = kFinished
             /\ SentBy("AutoFindTarget", "drive")' = {}
             /\ SentBy("AutoFindTarget", "pitch")' = {}]_vars

\* FindTarget has just finished on an empty capture, taken after an earlier
\* capture in which a target beyond the first was selected
C38_Witness ==
    /\ tick.handler = "TeleopPeriodic"
    /\ tick.mid["AutoFindTarget"] = kFinished /\ auto_find_target_state_ = kFinished
    /\ targets_report_ = 0 /\ current_target_ = 0
    /\ current_target_vector_location_ > 0
    /\ tick.cmds["drive"] # << >>
    /\ SentBy("AutoFindTarget", "drive") = {} /\ SentBy("AutoFindTarget", "pitch") = {}

\* C39: an Aim run about to make its first AdjustHeading call on a selected
\* target finds no heading adjustment in progress, so that the call takes
\* initial_heading_ from the gyro reading of that tick.
C39_FreshHeading ==
    (/\ robot_state_ \in {kTeleop, kAutonomous}
     /\ aim_state_ = kStep1 /\ current_target_ # 0
     /\ auto_find_target_state_ = kStep3 \/ auto_cycle_target_state_ = kStep2) =>
        ~adjustment_in_progress_

(***************************************************************************)
(* Properties of the height classification and of the aimed pitch.         *)
(***************************************************************************)
\* the calibrated aspect ratio of each goal
RatioOf(t, height) ==
    CASE height = kHigh -> t.target_rectangle_ratio_high_
      [] height = kMedium -> t.target_rectangle_ratio_medium_
      [] height = kLow -> t.target_rectangle_ratio_low_

\* the goals whose calibrated ratio is within the threshold of the ratio
WithinThreshold(t, rectangle_ratio) ==
    {g \in {kHigh, kMedium, kLow} :
        Abs(rectangle_ratio - RatioOf(t, g)) < t.target_rectangle_ratio_threshold_}

\* C33: the classification of a target is a goal within the threshold of
\* the target's aspect ratio than which no other goal within the threshold
\* is nearer, or Unknown when no goal is within the threshold.
C33_NearestProfile ==
    call.op = "AimPitch" =>
        LET near == WithinThreshold(call.t, call.input[1])
        IN  IF near = {}
            THEN call.height = kUnknown
            ELSE /\ call.height \in near
                 /\ \A g \in near :
                       Abs(call.input[1] - RatioOf(call.t, call.height))
                           <= Abs(call.input[1] - RatioOf(call.t, g))

\* C34: the aimed pitch of a target of Unknown height sends no motor
\* command towards an angle.
C34_UnknownHeightNoPitch ==
    (call.op = "AimPitch" /\ call.height = kUnknown) =>
        ~(call.r.sent /\ call.r.val # 0)

====
